---- MODULE Spec2Model ----
(***************************************************************************)
(* A model of the coherent-rs network layer (src/src/network.rs): the      *)
(* NetworkLaserServer with its accept, broadcast and command threads, the  *)
(* peers' TCP streams, and the blocking NetworkLaserClient calls, on top   *)
(* of the DebugLaser session (src/src/laser/debug.rs).                     *)
(*                                                                         *)
(* A TCP stream is a sequence of records.  A record is                     *)
(* [k |-> marker, v |-> payload]: the marker is the literal the record     *)
(* starts with, the payload is the sequence of MessagePack bytes that      *)
(* follows it (empty for the control verbs and the replies).               *)
(***************************************************************************)
EXTENDS Integers, Sequences, FiniteSets, TLC

\* ------------------------------------------------------------- bounds
\* Records a peer's socket buffers hold before a blocking write stalls.
StreamCap == 4
\* Whole records one read() into a 1024-byte buffer returns at most.
MaxRead == 2
\* Broadcast sweeps after which a client must see a command (2 * polling_interval).
FreshCycles == 2
\* Executions of one request that are counted (the code reaches 1).
MaxExec == 2
\* Clones of the server that exist at a time.
MaxClones == 1
\* Status records a buffer given to deserialize_laser_status holds.
MaxFrames == 2
\* poll() calls on a server that is already polling.
MaxRepolls == 2
\* Words of a response line of the instrument, before its CR LF.
MaxLine == 3

\* ------------------------------------------------------------- constants
\* TERMINATOR, b"\n"
TERMINATOR == 10
\* MessagePack true / false
MpTrue == 195
MpFalse == 194
\* rmp_serde tags of the DiscoveryNXCommands variants (their positions in the enum)
TagShutter == 2
TagWavelength == 5
TagGddCurve == 7
\* rmp_serde tags of the LaserType variants (their positions in the enum)
TagDiscoveryNX == 0
TagDebugLaser == 1
TagUnrecognizedDevice == 2
\* DebugLaser wavelength bounds
WavelengthMin == 700
WavelengthMax == 1000
GddMin == -10000
GddMax == 10000
\* DebugLaser::default()._variable_wavelength
DefaultWavelength == 920

\* The peers (remote addresses) that may connect.
Peers == {"A", "B"}
None == "none"
Tasks == {"accept", "bcast", "cmd"}

COMMAND_SUCCESSFUL == "COMMAND SUCCESSFUL"
COMMAND_FAILED == "COMMAND FAILED"
NOT_PRIMARY_CLIENT == "NOT PRIMARY CLIENT"
DEMAND_PRIMARY_CLIENT == "DEMAND PRIMARY CLIENT"
FORGET_PRIMARY_CLIENT == "FORGET PRIMARY CLIENT"
FORGET_ME == "FORGET ME"
COMMAND_MARKER == "Command: "
STATUS_MARKER == "Status: "
LASER_ID == "Laser ID: "

Min(a, b) == IF a < b THEN a ELSE b

\* ------------------------------------------------------------- the session
\* The commands the peers and the owner issue (DiscoveryNXCommands).
Commands ==
    { [name |-> "Shutter", arg |-> TRUE], [name |-> "Shutter", arg |-> FALSE],
      [name |-> "Wavelength", arg |-> 1001],
      [name |-> "GddCurve", arg |-> 10] }
\* The commands the clients send, and those the owner issues directly.
ClientCommands == Commands \ {[name |-> "Shutter", arg |-> FALSE]}
OwnerCommands == {[name |-> "Shutter", arg |-> FALSE]}

\* DebugLaser::default(), the fields the commands above reach.
DefaultLaser ==
    [variable_shutter |-> FALSE, wavelength |-> DefaultWavelength, gdd_curve |-> 0]

\* x < lo || x > hi
OutOfBounds_closed(x, lo, hi) == x <= lo \/ x >= hi
OutOfBounds(x, lo, hi) == x < lo \/ x > hi

\* match laser { .. DiscoveryLaser::FixedWavelength => .. }: the command is
\* for the fixed-wavelength path.
OnFixed(c) == "laser" \in DOMAIN c /\ c.laser = "FixedWavelength"

\* DebugLaser::send_command: the result and the session afterwards.
send_command(l, c) ==
    CASE c.name = "Wavelength" ->
            IF OutOfBounds(c.arg, WavelengthMin, WavelengthMax)
            THEN [ok |-> FALSE, laser |-> l]
            ELSE [ok |-> TRUE, laser |-> [l EXCEPT !.wavelength = c.arg]]
      [] c.name = "Gdd" ->
            IF OutOfBounds(c.arg, GddMin, GddMax)
            THEN [ok |-> FALSE, laser |-> l]
            ELSE [ok |-> TRUE, laser |-> [l EXCEPT !.gdd = c.arg]]
      [] c.name = "Echo" ->
            [ok |-> TRUE, laser |-> [l EXCEPT !.echo = c.arg]]
      [] c.name = "Shutter" ->
            IF OnFixed(c)
            THEN [ok |-> TRUE, laser |-> [l EXCEPT !.fixed_shutter = c.arg]]
            ELSE [ok |-> TRUE, laser |-> [l EXCEPT !.variable_shutter = c.arg]]
      [] c.name = "GddCurve" ->
            [ok |-> TRUE, laser |-> [l EXCEPT !.gdd_curve = c.arg]]
      [] c.name = "GddCurveN" ->
            [ok |-> TRUE, laser |-> [l EXCEPT !.gdd_curve_n = c.arg]]
      [] c.name = "AlignmentMode" ->
            IF OnFixed(c)
            THEN [ok |-> TRUE, laser |-> [l EXCEPT !.alignment_fixed = c.arg]]
            ELSE [ok |-> TRUE, laser |-> [l EXCEPT !.alignment_var = c.arg]]
      [] c.name = "Laser" ->
            [ok |-> TRUE, laser |-> [l EXCEPT !.status = c.arg]]
      [] c.name = "FaultClear" ->
            [ok |-> TRUE, laser |-> [l EXCEPT !.fault_text = "No faults"]]
      [] OTHER -> [ok |-> TRUE, laser |-> l]

\* DebugLaser::status: the status the session reports.  Its fields are the
\* fields of the session, but laser, which is LaserState::On whatever the
\* session holds (a session that carries only the fields the peers' commands
\* reach has no field the Laser command writes, and none is added).
status(l) == IF "status" \in DOMAIN l THEN l @@ [laser |-> "On"] ELSE l

\* ------------------------------------------------------------- the codec
MpBool(b) == IF b THEN MpTrue ELSE MpFalse

\* rmp_serde bytes of a status: one byte (or token) per modelled field.
serialized_status(l) ==
    << MpBool(status(l).variable_shutter), status(l).wavelength, status(l).gdd_curve >>

\* rmp_serde bytes of a command: the variant tag, then its argument.
serialize_command(c) ==
    CASE c.name = "Shutter" -> << TagShutter, MpBool(c.arg) >>
      [] c.name = "Wavelength" -> << TagWavelength, c.arg >>
      [] c.name = "GddCurve" -> << TagGddCurve, c.arg >>

\* status.split(|&x| x == TERMINATOR[0]).next(): the bytes before the first
\* terminator byte.
RECURSIVE UpToTerminator(_)
UpToTerminator(bytes) ==
    IF bytes = << >> \/ Head(bytes) = TERMINATOR THEN << >>
    ELSE << Head(bytes) >> \o UpToTerminator(Tail(bytes))

\* rmp_serde decoding of a status: fails on a truncated payload.
DecodeStatus(bytes) ==
    IF Len(bytes) = 3 /\ bytes[1] \in {MpTrue, MpFalse}
    THEN [ok |-> TRUE,
          val |-> [variable_shutter |-> (bytes[1] = MpTrue),
                   wavelength |-> bytes[2], gdd_curve |-> bytes[3]]]
    ELSE [ok |-> FALSE, val |-> None]

\* rmp_serde decoding of a command: fails on a truncated payload.
DecodeCommand(bytes) ==
    IF Len(bytes) = 2 /\ bytes[1] \in {TagShutter, TagWavelength, TagGddCurve}
    THEN [ok |-> TRUE,
          val |-> CASE bytes[1] = TagShutter ->
                         [name |-> "Shutter", arg |-> (bytes[2] = MpTrue)]
                    [] bytes[1] = TagWavelength ->
                         [name |-> "Wavelength", arg |-> bytes[2]]
                    [] bytes[1] = TagGddCurve ->
                         [name |-> "GddCurve", arg |-> bytes[2]]]
    ELSE [ok |-> FALSE, val |-> None]

\* Index of the last record of a chunk that starts with STATUS_MARKER (0: none):
\* rposition over the windows of the accumulated data.
RECURSIVE LastStatus(_)
LastStatus(chunk) ==
    IF chunk = << >> THEN 0
    ELSE IF chunk[Len(chunk)].k = STATUS_MARKER THEN Len(chunk)
    ELSE LastStatus(SubSeq(chunk, 1, Len(chunk) - 1))

\* deserialize_laser_status on the accumulated data.
deserialize_laser_status(chunk) ==
    IF LastStatus(chunk) = 0 THEN [ok |-> FALSE, val |-> None]
    ELSE DecodeStatus(UpToTerminator(chunk[LastStatus(chunk)].v))

\* deserialize_command on what one read returned.
\* In what follows a verb in a read, the place of the bytes of COMMAND_MARKER.
MarkerToken == 256
\* stream.windows(COMMAND_MARKER.len()).position(..): where the marker ends
\* in the bytes (0: no marker).
MarkerEnd(bytes) ==
    IF \E i \in 1..Len(bytes) : bytes[i] = MarkerToken
    THEN CHOOSE i \in 1..Len(bytes) :
            bytes[i] = MarkerToken /\ \A j \in 1..(i - 1) : bytes[j] # MarkerToken
    ELSE 0

deserialize_command(r) ==
    IF r.k = COMMAND_MARKER THEN DecodeCommand(UpToTerminator(r.v))
    ELSE IF MarkerEnd(r.v) > 0
    THEN DecodeCommand(UpToTerminator(SubSeq(r.v, MarkerEnd(r.v) + 1, Len(r.v))))
    ELSE [ok |-> FALSE, val |-> None]

\* LaserType, and the type of the session the server holds: DebugLaser.
LaserTypes == {"DiscoveryNX", "DebugLaser", "UnrecognizedDevice"}
ServerLaserType == "DebugLaser"

\* rmp_serde bytes of a LaserType.
serialize_laser_type(ty) ==
    CASE ty = "DiscoveryNX" -> << TagDiscoveryNX >>
      [] ty = "DebugLaser" -> << TagDebugLaser >>
      [] ty = "UnrecognizedDevice" -> << TagUnrecognizedDevice >>

\* rmp_serde decoding of a LaserType.
DecodeLaserType(bytes) ==
    IF Len(bytes) = 1
       /\ bytes[1] \in {TagDiscoveryNX, TagDebugLaser, TagUnrecognizedDevice}
    THEN [ok |-> TRUE,
          val |-> CASE bytes[1] = TagDiscoveryNX -> "DiscoveryNX"
                    [] bytes[1] = TagDebugLaser -> "DebugLaser"
                    [] bytes[1] = TagUnrecognizedDevice -> "UnrecognizedDevice"]
    ELSE [ok |-> FALSE, val |-> None]

\* Index of the first record of a chunk that starts with LASER_ID (0: none).
RECURSIVE FirstLaserId(_)
FirstLaserId(chunk) ==
    IF chunk = << >> THEN 0
    ELSE IF Head(chunk).k = LASER_ID THEN 1
    ELSE IF FirstLaserId(Tail(chunk)) = 0 THEN 0
    ELSE FirstLaserId(Tail(chunk)) + 1

\* deserialize_laser_type on what the client's buffer holds.
deserialize_laser_type(chunk) ==
    IF FirstLaserId(chunk) = 0 THEN [ok |-> FALSE, val |-> None]
    ELSE DecodeLaserType(UpToTerminator(chunk[FirstLaserId(chunk)].v))

\* The records of the protocol.
NoReq == [k |-> None, v |-> << >>]
VerbRec(verb) == [k |-> verb, v |-> << >>]
CommandRec(c) == [k |-> COMMAND_MARKER, v |-> serialize_command(c)]
IdRec == [k |-> LASER_ID, v |-> serialize_laser_type(ServerLaserType)]
StatusRec(bytes) == [k |-> STATUS_MARKER, v |-> bytes]
ReplyRec(r) == [k |-> r, v |-> << >>]
Replies == {COMMAND_SUCCESSFUL, COMMAND_FAILED, NOT_PRIMARY_CLIENT}
Requests ==
    {VerbRec(v) : v \in {DEMAND_PRIMARY_CLIENT, FORGET_PRIMARY_CLIENT, FORGET_ME}}
        \cup {CommandRec(c) : c \in ClientCommands}
\* The requests each peer sends: the first peer sends all of them, the second
\* one competes for the primary slot.
RequestsOf(p) ==
    IF p = "A" THEN Requests
    ELSE {VerbRec(DEMAND_PRIMARY_CLIENT), VerbRec(FORGET_ME)}
\* The peers that call query_status().
Queriers == {"A"}

\* ------------------------------------------------------------- the state
VARIABLES
    polling,          \* _polling, the AtomicBool
    threads,          \* the three Option<JoinHandle>: TRUE when Some
    tpc,              \* position of each spawned thread
    clients,          \* _clients, the Vec<TcpStream>, as peers in list order
    clients_lock,     \* holder of the _clients mutex
    clients_poisoned, \* the _clients mutex is poisoned
    laser,            \* the session behind _laser
    laser_lock,       \* holder of the _laser mutex
    laser_poisoned,   \* the _laser mutex is poisoned
    primary_client,   \* the command thread's _primary_client slot
    acc_stream,       \* accept thread: the accepted stream not yet pushed
    bc_idx,           \* broadcast thread: position of retain() in the list
    bc_snap,          \* broadcast thread: the serialized status of this sweep
    cmd_idx,          \* command thread: position of iter_mut() in the list
    cmd_rec,          \* command thread: the record in buf, as read from the peer
    cmd_buf,          \* command thread: the decoded command to execute
    cmd_execs,        \* command thread: send_command calls made for the record in buf
    cmd_reply,        \* command thread: the reply about to be written
    cmd_slot0,        \* command thread: the slot as it was when buf was read
    opc,              \* position of the thread that owns the server
    in_get_laser,     \* the owner is inside get_laser()
    laser_out,        \* what get_laser() returned
    clones,           \* clones of the server alive: each holds a clone of the _laser Arc
    peer,             \* state of each peer's connection
    s2c,              \* records written to a peer and not yet read by it
    req,              \* the request a peer wrote and the server has not read
    serial_session,   \* serial session: echo_on and prompt_on latched at open
    serial_line,      \* serial session: the response line the instrument sends
    serial_out,       \* serial session: what send_command returned, if called
    debug_laser,      \* a debug session driven directly: its fields
    debug_out,        \* a debug session: the last command and its result
    bc_partial,       \* status(): the answers of the queries made so far
    bc_frames,        \* per peer, the frames written to it in this iteration
    wait_pc,          \* a call that waits for its reply: where it is
    response_ptr,     \* that call's response_ptr
    polling_interval, \* _polling_interval: seconds between two sweeps
    interval_lock,    \* who holds the guard of _polling_interval
    bc_sleep,         \* the broadcaster's sleep: the interval it read (0: none yet)
    slot_dropped,     \* the binding of the task before, when poll() last spawned
    spawned_over,     \* the tasks still running when poll() last spawned
    repolls,          \* poll() calls that returned at once
    req_tail,         \* of each peer: the bytes of its request that have not arrived yet
    codec_in,         \* framing: the value last encoded into codec_buf
    codec_buf,        \* framing: a buffer of framed records
    codec_out,        \* framing: what the decoding of codec_buf returned, if done
    cpc,              \* position of each client
    ctype,            \* the laser type each client is declared for (its parameter L)
    cres,             \* result of each client's last call
    owed,             \* broadcast sweeps still to complete until FreshCycles sweeps that
                      \* began after the last successful send_command have completed
    need              \* the query_status in progress began when none was owed

vars ==
    << polling, threads, tpc, clients, clients_lock, clients_poisoned, laser,
       laser_lock, laser_poisoned, primary_client, acc_stream, bc_idx, bc_snap,
       cmd_idx, cmd_rec, cmd_buf, cmd_execs, cmd_reply, cmd_slot0, opc,
       in_get_laser, laser_out, clones, peer, s2c, req, cpc, ctype, cres, owed,
       need, codec_in, codec_buf, codec_out, req_tail, serial_session, serial_line,
       serial_out, debug_laser, debug_out, spawned_over, repolls,
       slot_dropped, polling_interval, interval_lock, bc_sleep,
       bc_partial, bc_frames, wait_pc, response_ptr >>

serverVars ==
    << polling, threads, tpc, clients, clients_lock, clients_poisoned, laser,
       laser_lock, laser_poisoned, primary_client, acc_stream, bc_idx, bc_snap,
       cmd_idx, cmd_rec, cmd_buf, cmd_execs, cmd_reply, cmd_slot0 >>
ownerVars == << opc, in_get_laser, laser_out, clones >>
clientVars == << cpc, ctype, cres >>
ghostVars == << owed, need >>
codecVars == << codec_in, codec_buf, codec_out >>
splitVars == << req_tail >>
\* What only the actions of the framing, partial-read and serial scenarios change.
serialVars == << serial_session, serial_line, serial_out >>
debugVars == << debug_laser, debug_out >>
pollVars == << spawned_over, repolls, slot_dropped >>
\* The polling interval, its mutex, and the interval the broadcaster sleeps for.
intervalVars == << polling_interval, interval_lock, bc_sleep >>
\* The status the broadcaster is reading, query by query.
sweepVars == << bc_partial, bc_frames >>
waitVars == << wait_pc, response_ptr >>
scenarioVars == << codecVars, splitVars, serialVars, debugVars, pollVars, intervalVars,
       sweepVars, waitVars >>

Free == "free"
\* polling_interval.unwrap_or(1.0), and the values set_polling_interval is given.
DefaultInterval == 1
Intervals == {1, 2}
\* Variant: lock() on the session returns whoever holds its guard.
SessionLockable_always(holder) == TRUE
\* _laser.lock(): returns once no guard of the session is alive.
SessionLockable(holder) == holder = Free
\* Variant: lock() on the client list returns whoever holds its guard.
ClientsLockable_always(holder) == TRUE
\* _clients.lock(): returns once no guard of the client list is alive.
ClientsLockable(holder) == holder = Free
NoSnap == << >>
NoCmd == [name |-> None, arg |-> 0]

\* NetworkLaserServer::new, and no peer connected yet.
InitServer ==
    /\ polling = FALSE
    /\ threads = [t \in Tasks |-> FALSE]
    /\ tpc = [t \in Tasks |-> "none"]
    /\ clients = << >>
    /\ clients_lock = Free
    /\ clients_poisoned = FALSE
    /\ laser = DefaultLaser
    /\ laser_lock = Free
    /\ laser_poisoned = FALSE
    /\ primary_client = None
    /\ acc_stream = None
    /\ bc_idx = 0
    /\ bc_snap = NoSnap
    /\ cmd_idx = 0
    /\ cmd_rec = NoReq
    /\ cmd_buf = NoCmd
    /\ cmd_execs = 0
    /\ cmd_reply = None
    /\ cmd_slot0 = None
    /\ opc = "idle"
    /\ in_get_laser = FALSE
    /\ laser_out = None
    /\ clones = 0
    /\ peer = [p \in Peers |-> "absent"]
    /\ s2c = [p \in Peers |-> << >>]
    /\ req = [p \in Peers |-> NoReq]
    /\ cpc = [p \in Peers |-> "off"]
    /\ ctype = [p \in Peers |-> ServerLaserType]
    /\ cres = [p \in Peers |-> None]
    /\ owed = 0
    /\ need = [p \in Peers |-> FALSE]
    /\ req_tail = [p \in Peers |-> << >>]

\* No value has been framed.
NoValue == [kind |-> None, val |-> None]

\* No serial session is modelled: no line, no call.
InitNoSerial ==
    /\ serial_session = [echo |-> FALSE, prompt |-> FALSE]
    /\ serial_line = << >>
    /\ serial_out = << >>
    /\ debug_laser = DefaultLaser
    /\ debug_out = << >>
    /\ spawned_over = {}
    /\ slot_dropped = None
    /\ polling_interval = DefaultInterval
    /\ interval_lock = Free
    /\ bc_sleep = 0
    /\ bc_partial = << >>
    /\ bc_frames = [p \in Peers |-> << >>]
    /\ wait_pc = "idle"
    /\ response_ptr = 0
    /\ repolls = 0

Init ==
    /\ InitServer
    /\ InitNoSerial
    /\ codec_in = NoValue
    /\ codec_buf = << >>
    /\ codec_out = << >>

Alive(t) == tpc[t] \notin {"none", "done", "panicked"}

\* The sweeps owed after a successful send_command: FreshCycles sweeps, and the
\* sweep in progress when its snapshot was taken before the command.
OwedAfterCommand == FreshCycles + (IF tpc["bcast"] = "write" THEN 1 ELSE 0)

\* ------------------------------------------------------------- peer streams
\* What a write_all() of one record to peer p does: "ok", "err" (the peer has
\* reset the connection) or "block" (the peer's buffers are full).
WriteOutcome(p) ==
    CASE peer[p] = "rst" -> "err"
      [] peer[p] = "fin" -> "ok"
      [] Len(s2c[p]) >= StreamCap -> "block"
      [] OTHER -> "ok"

\* The peer's stream and connection after a successful write of rec: a peer
\* that has closed answers the write with a reset.
StreamAfterWrite_twice(p, rec) ==
    IF peer[p] = "fin" THEN s2c ELSE [s2c EXCEPT ![p] = Append(Append(@, rec), rec)]
StreamAfterWrite(p, rec) ==
    IF peer[p] = "fin" THEN s2c ELSE [s2c EXCEPT ![p] = Append(@, rec)]
PeerAfterWrite(p) ==
    IF peer[p] = "fin" THEN [peer EXCEPT ![p] = "rst"] ELSE peer

\* A retain() that drops the peers before the failed one as well.
RemoveAt_upto(seq, i) == SubSeq(seq, i + 1, Len(seq))

\* Vec::retain: the element at i is removed, the others keep their order.
RemoveAt(seq, i) == SubSeq(seq, 1, i - 1) \o SubSeq(seq, i + 1, Len(seq))

\* An accept thread that adds the peer without identifying the laser.
AcceptWrite_none(stream) == stream

\* stream.write_all(&self_id): LASER_ID, the serialized type, TERMINATOR.
AcceptWrite(stream) == Append(stream, IdRec)

\* ------------------------------------------------------------- accept thread
\* listener.incoming() yields a connection: the LASER_ID record is written to it
\* and the read timeout is set; the stream is not yet in the client list.
AcceptConn(p) ==
    /\ tpc["accept"] = "run"
    /\ peer[p] = "pending"
    /\ peer' = [peer EXCEPT ![p] = "conn"]
    /\ s2c' = [s2c EXCEPT ![p] = AcceptWrite(s2c[p])]
    /\ acc_stream' = p
    /\ tpc' = [tpc EXCEPT !["accept"] = "push"]
    /\ UNCHANGED << polling, threads, clients, clients_lock, clients_poisoned, laser,
                    laser_lock, laser_poisoned, primary_client, bc_idx, bc_snap,
                    cmd_idx, cmd_rec, cmd_buf, cmd_execs, cmd_reply, cmd_slot0, req >>
    /\ UNCHANGED << ownerVars, clientVars, ghostVars >>
    /\ UNCHANGED scenarioVars

\* _clients.lock().unwrap(); clients.push(stream); then the flag is read.
AcceptPush ==
    /\ tpc["accept"] = "push"
    /\ ClientsLockable(clients_lock)
    /\ IF clients_poisoned
       THEN /\ tpc' = [tpc EXCEPT !["accept"] = "panicked"]
            /\ UNCHANGED clients
       ELSE /\ clients' = Append(clients, acc_stream)
            /\ tpc' = [tpc EXCEPT !["accept"] = IF polling THEN "run" ELSE "done"]
    /\ acc_stream' = None
    /\ UNCHANGED << polling, threads, clients_lock, clients_poisoned, laser,
                    laser_lock, laser_poisoned, primary_client, bc_idx, bc_snap,
                    cmd_idx, cmd_rec, cmd_buf, cmd_execs, cmd_reply, cmd_slot0, peer, s2c, req >>
    /\ UNCHANGED << ownerVars, clientVars, ghostVars >>
    /\ UNCHANGED scenarioVars

\* incoming() yields WouldBlock and the flag is found cleared: the thread ends.
AcceptExit ==
    /\ tpc["accept"] = "run"
    /\ ~polling
    /\ tpc' = [tpc EXCEPT !["accept"] = "done"]
    /\ UNCHANGED << polling, threads, clients, clients_lock, clients_poisoned, laser,
                    laser_lock, laser_poisoned, primary_client, acc_stream, bc_idx,
                    bc_snap, cmd_idx, cmd_rec, cmd_buf, cmd_execs, cmd_reply, cmd_slot0, peer, s2c, req >>
    /\ UNCHANGED << ownerVars, clientVars, ghostVars >>
    /\ UNCHANGED scenarioVars

\* ------------------------------------------------------------- broadcast thread
\* Top of the loop: the flag is read, then clients.lock().unwrap().
BcTop ==
    /\ tpc["bcast"] = "top"
    /\ IF ~polling
       THEN /\ tpc' = [tpc EXCEPT !["bcast"] = "done"]
            /\ UNCHANGED clients_lock
       ELSE /\ ClientsLockable(clients_lock)
            /\ IF clients_poisoned
               THEN /\ tpc' = [tpc EXCEPT !["bcast"] = "panicked"]
                    /\ UNCHANGED clients_lock
               ELSE /\ tpc' = [tpc EXCEPT !["bcast"] = "snap"]
                    /\ clients_lock' = "bcast"
    /\ UNCHANGED << polling, threads, clients, clients_poisoned, laser, laser_lock,
                    laser_poisoned, primary_client, acc_stream, bc_idx, bc_snap,
                    cmd_idx, cmd_rec, cmd_buf, cmd_execs, cmd_reply, cmd_slot0, peer, s2c, req >>
    /\ UNCHANGED << ownerVars, clientVars, ghostVars >>
    /\ UNCHANGED scenarioVars

\* The session is locked, serialized_status() is taken and the session lock is
\* dropped again (drop(laser_lock)) before any peer is written.
\* Variant: the session guard lives until the end of the loop body.
SessionAfterSnapshot_held == "bcast"
\* drop(laser_lock), before clients.retain(..)
SessionAfterSnapshot == Free

BcSnapshot ==
    /\ tpc["bcast"] = "snap"
    /\ SessionLockable(laser_lock)
    /\ IF laser_poisoned
       THEN /\ tpc' = [tpc EXCEPT !["bcast"] = "panicked"]
            /\ clients_lock' = Free
            /\ clients_poisoned' = TRUE
            /\ UNCHANGED << bc_snap, bc_idx, laser_lock >>
       ELSE /\ tpc' = [tpc EXCEPT !["bcast"] = "write"]
            /\ bc_snap' = << StatusRec(serialized_status(laser)) >>
            /\ bc_idx' = 1
            /\ laser_lock' = SessionAfterSnapshot
            /\ UNCHANGED << clients_lock, clients_poisoned >>
    /\ UNCHANGED << polling, threads, clients, laser, laser_poisoned,
                    primary_client, acc_stream, cmd_idx, cmd_rec, cmd_buf, cmd_execs, cmd_reply, cmd_slot0, peer,
                    s2c, req >>
    /\ UNCHANGED << ownerVars, clientVars, ghostVars >>
    /\ UNCHANGED scenarioVars

\* serialized_status() of a session that can fail (a serial session whose
\* instrument does not answer) returns Err: continue, so both guards are
\* dropped and the loop starts again, without a write and without the sleep.
BcSnapshotFails ==
    /\ tpc["bcast"] = "snap"
    /\ SessionLockable(laser_lock)
    /\ ~laser_poisoned
    /\ tpc' = [tpc EXCEPT !["bcast"] = "top"]
    /\ clients_lock' = Free
    /\ UNCHANGED << polling, threads, clients, clients_poisoned, laser, laser_lock,
                    laser_poisoned, primary_client, acc_stream, bc_idx, bc_snap,
                    cmd_idx, cmd_rec, cmd_buf, cmd_execs, cmd_reply, cmd_slot0, peer,
                    s2c, req >>
    /\ UNCHANGED << ownerVars, clientVars, ghostVars >>
    /\ UNCHANGED scenarioVars

\* One call of the retain() closure: the frame is written to the peer at bc_idx,
\* and the peer is removed from the list when write_all() fails.
\* status() of a session that asks the instrument one query at a time
\* (Discovery::status): the guard is taken, the queries are made one after the
\* other, and the guard is dropped when the status has been serialized.
\* Variant: the session is not locked while the queries are made.
SessionDuringSweep_free == Free
\* let mut laser_lock = _laser.as_ref().unwrap().lock().unwrap()
SessionDuringSweep == "bcast"

BcSweepBegin ==
    /\ tpc["bcast"] = "snap"
    /\ SessionLockable(laser_lock)
    /\ IF laser_poisoned
       THEN /\ tpc' = [tpc EXCEPT !["bcast"] = "panicked"]
            /\ clients_lock' = Free
            /\ clients_poisoned' = TRUE
            /\ UNCHANGED laser_lock
       ELSE /\ tpc' = [tpc EXCEPT !["bcast"] = "query"]
            /\ laser_lock' = SessionDuringSweep
            /\ UNCHANGED << clients_lock, clients_poisoned >>
    /\ bc_partial' = << >>
    /\ UNCHANGED bc_frames
    /\ UNCHANGED << polling, threads, clients, laser, laser_poisoned, primary_client,
                    acc_stream, bc_idx, bc_snap, cmd_idx, cmd_rec, cmd_buf, cmd_execs,
                    cmd_reply, cmd_slot0, peer, s2c, req >>
    /\ UNCHANGED << ownerVars, clientVars, ghostVars >>
    /\ UNCHANGED << codecVars, splitVars, serialVars, debugVars, pollVars, intervalVars,
                    waitVars >>

\* One self.query(..)? of status(): the next field is read from the session.
BcSweepQuery ==
    /\ tpc["bcast"] = "query"
    /\ Len(bc_partial) < Len(serialized_status(laser))
    /\ bc_partial' = Append(bc_partial, serialized_status(laser)[Len(bc_partial) + 1])
    /\ UNCHANGED bc_frames
    /\ UNCHANGED << serverVars, ownerVars, clientVars, peer, s2c, req, ghostVars >>
    /\ UNCHANGED << codecVars, splitVars, serialVars, debugVars, pollVars, intervalVars,
                    waitVars >>

\* The last query is answered: the status is serialized and the guard dropped.
BcSweepEnd ==
    /\ tpc["bcast"] = "query"
    /\ Len(bc_partial) = Len(serialized_status(laser))
    /\ tpc' = [tpc EXCEPT !["bcast"] = "write"]
    /\ bc_snap' = << StatusRec(bc_partial) >>
    /\ bc_idx' = 1
    /\ laser_lock' = SessionAfterSnapshot
    /\ bc_partial' = << >>
    /\ UNCHANGED bc_frames
    /\ UNCHANGED << polling, threads, clients, clients_lock, clients_poisoned, laser,
                    laser_poisoned, primary_client, acc_stream, cmd_idx, cmd_rec,
                    cmd_buf, cmd_execs, cmd_reply, cmd_slot0, peer, s2c, req >>
    /\ UNCHANGED << ownerVars, clientVars, ghostVars >>
    /\ UNCHANGED << codecVars, splitVars, serialVars, debugVars, pollVars, intervalVars,
                    waitVars >>

\* Variant: the closure is called again on the element it has kept.
SweepAfterKept_again(i) == i
\* retain() goes on to the next element when the closure returns true.
SweepAfterKept(i) == i + 1

BcWrite ==
    /\ tpc["bcast"] = "write"
    /\ bc_idx <= Len(clients)
    /\ LET p == clients[bc_idx] IN
        /\ WriteOutcome(p) # "block"
        /\ IF WriteOutcome(p) = "ok"
           THEN /\ s2c' = StreamAfterWrite(p, bc_snap[1])
                /\ peer' = PeerAfterWrite(p)
                /\ bc_idx' = SweepAfterKept(bc_idx)
                /\ bc_frames' = [bc_frames EXCEPT ![p] = Append(@, bc_snap[1])]
                /\ UNCHANGED clients
           ELSE /\ clients' = RemoveAt(clients, bc_idx)
                /\ UNCHANGED << s2c, peer, bc_idx, bc_frames >>
    /\ UNCHANGED << polling, threads, tpc, clients_lock, clients_poisoned, laser,
                    laser_lock, laser_poisoned, primary_client, acc_stream, bc_snap,
                    cmd_idx, cmd_rec, cmd_buf, cmd_execs, cmd_reply, cmd_slot0, req >>
    /\ UNCHANGED << ownerVars, clientVars, ghostVars >>
    /\ UNCHANGED << codecVars, splitVars, serialVars, debugVars, pollVars, intervalVars,
                    bc_partial, waitVars >>

\* drop(clients), then the sleep of one polling interval.
\* Variant: task t sleeps with its guard of the client list alive.
ClientsAfterSweep_held(t) == t
\* drop(clients), before std::thread::sleep(..)
ClientsAfterSweep(t) == Free

BcEnd ==
    /\ tpc["bcast"] = "write"
    /\ bc_idx > Len(clients)
    /\ clients_lock' = ClientsAfterSweep("bcast")
    /\ interval_lock = Free
    /\ interval_lock' = "bcast"
    /\ bc_sleep' = polling_interval
    /\ tpc' = [tpc EXCEPT !["bcast"] = "sleep"]
    /\ bc_snap' = NoSnap
    /\ bc_idx' = 0
    /\ owed' = IF owed > 0 THEN owed - 1 ELSE 0
    /\ UNCHANGED << polling, threads, clients, clients_poisoned, laser, laser_lock,
                    laser_poisoned, primary_client, acc_stream, cmd_idx, cmd_rec, cmd_buf, cmd_execs,
                    cmd_reply, cmd_slot0, peer, s2c, req >>
    /\ bc_frames' = [p \in Peers |-> << >>]
    /\ UNCHANGED << ownerVars, clientVars, need >>
    /\ UNCHANGED << codecVars, splitVars, serialVars, debugVars, pollVars,
                    polling_interval, bc_partial, waitVars >>

\* std::thread::sleep(..) returns: the guard of _polling_interval, a temporary
\* of the sleep statement, is dropped at the end of that statement.
BcWake ==
    /\ tpc["bcast"] = "sleep"
    /\ tpc' = [tpc EXCEPT !["bcast"] = "top"]
    /\ interval_lock' = Free
    /\ UNCHANGED << polling, threads, clients, clients_lock, clients_poisoned, laser,
                    laser_lock, laser_poisoned, primary_client, acc_stream, bc_idx,
                    bc_snap, cmd_idx, cmd_rec, cmd_buf, cmd_execs, cmd_reply,
                    cmd_slot0, peer, s2c, req >>
    /\ UNCHANGED << ownerVars, clientVars, ghostVars >>
    /\ UNCHANGED << codecVars, splitVars, serialVars, debugVars, pollVars,
                    polling_interval, bc_sleep,
                    sweepVars, waitVars >>

\* ------------------------------------------------------------- command thread
\* Variant: the verb is acknowledged but the slot is left as it was.
OnForgetPrimaryClient_keep(slot) ==
    [slot |-> slot, reply |-> COMMAND_SUCCESSFUL]

\* FORGET PRIMARY CLIENT: the slot is taken; try_lock() on the taken handle
\* succeeds, since no other thread ever locks it.
OnForgetPrimaryClient(slot) ==
    [slot |-> None, reply |-> COMMAND_SUCCESSFUL]

\* Variant: the slot is bound to the caller whether or not it is taken.
OnDemandPrimaryClient_rebind(slot, p) ==
    [slot |-> p, reply |-> COMMAND_SUCCESSFUL]

\* DEMAND PRIMARY CLIENT from peer p.
OnDemandPrimaryClient(slot, p) ==
    IF slot = None
    THEN [slot |-> p, reply |-> COMMAND_SUCCESSFUL]
    ELSE [slot |-> slot, reply |-> NOT_PRIMARY_CLIENT]

\* Variant: the addresses are not compared, any peer releases the slot.
OnForgetMe_anyone(slot, p) ==
    IF slot # None
    THEN [slot |-> None, reply |-> COMMAND_SUCCESSFUL]
    ELSE [slot |-> slot, reply |-> COMMAND_FAILED]

\* FORGET ME from peer p: the peer addresses are compared.
OnForgetMe(slot, p) ==
    IF slot # None /\ slot = p
    THEN [slot |-> None, reply |-> COMMAND_SUCCESSFUL]
    ELSE [slot |-> slot, reply |-> COMMAND_FAILED]

\* Variant: the guard in front of send_command is missing.
IsNotPrimary_never(slot, p) == FALSE

\* The guard in front of send_command: a primary is set and it is another peer.
IsNotPrimary(slot, p) == slot # None /\ slot # p

\* The three control verbs.
Verbs == {FORGET_PRIMARY_CLIENT, DEMAND_PRIMARY_CLIENT, FORGET_ME}

\* The ifs of the dispatch are not chained: after the reply to a verb, the
\* same read is given to deserialize_command.  The command record that
\* follows the verb in the read rec (NoReq: none that decodes).
CommandAfterVerb(rec) ==
    IF rec.k \in Verbs /\ deserialize_command(rec).ok
    THEN [k |-> COMMAND_MARKER, v |-> SubSeq(rec.v, MarkerEnd(rec.v) + 1, Len(rec.v))]
    ELSE NoReq

\* What the command thread does with the record r it read from peer p:
\* the slot afterwards, the reply to write (None: no reply yet), and the command
\* to execute on the session (exec).
Dispatch(slot, p, r) ==
    CASE r.k = FORGET_PRIMARY_CLIENT ->
            [slot |-> OnForgetPrimaryClient(slot).slot,
             reply |-> OnForgetPrimaryClient(slot).reply, exec |-> FALSE, cmd |-> NoCmd]
      [] r.k = DEMAND_PRIMARY_CLIENT ->
            [slot |-> OnDemandPrimaryClient(slot, p).slot,
             reply |-> OnDemandPrimaryClient(slot, p).reply, exec |-> FALSE, cmd |-> NoCmd]
      [] r.k = FORGET_ME ->
            [slot |-> OnForgetMe(slot, p).slot,
             reply |-> OnForgetMe(slot, p).reply, exec |-> FALSE, cmd |-> NoCmd]
      [] deserialize_command(r).ok ->
            IF IsNotPrimary(slot, p)
            THEN [slot |-> slot, reply |-> NOT_PRIMARY_CLIENT, exec |-> FALSE, cmd |-> NoCmd]
            ELSE [slot |-> slot, reply |-> None, exec |-> TRUE,
                  cmd |-> deserialize_command(r).val]
      [] OTHER -> [slot |-> slot, reply |-> None, exec |-> FALSE, cmd |-> NoCmd]

\* Top of the loop: the flag is read, then _clients.lock().unwrap().
CmdTop ==
    /\ tpc["cmd"] = "top"
    /\ IF ~polling
       THEN /\ tpc' = [tpc EXCEPT !["cmd"] = "done"]
            /\ UNCHANGED << clients_lock, cmd_idx >>
       ELSE /\ ClientsLockable(clients_lock)
            /\ IF clients_poisoned
               THEN /\ tpc' = [tpc EXCEPT !["cmd"] = "panicked"]
                    /\ UNCHANGED << clients_lock, cmd_idx >>
               ELSE /\ tpc' = [tpc EXCEPT !["cmd"] = "iter"]
                    /\ clients_lock' = "cmd"
                    /\ cmd_idx' = 1
    /\ UNCHANGED << polling, threads, clients, clients_poisoned, laser, laser_lock,
                    laser_poisoned, primary_client, acc_stream, bc_idx, bc_snap,
                    cmd_rec, cmd_buf, cmd_execs, cmd_reply, cmd_slot0, peer, s2c, req >>
    /\ UNCHANGED << ownerVars, clientVars, ghostVars >>
    /\ UNCHANGED scenarioVars

\* A thread that panics while it holds the guards poisons both mutexes.
CmdPanic ==
    /\ tpc' = [tpc EXCEPT !["cmd"] = "panicked"]
    /\ clients_lock' = Free
    /\ clients_poisoned' = TRUE
    /\ laser_lock' = IF laser_lock = "cmd" THEN Free ELSE laser_lock
    /\ laser_poisoned' = (laser_poisoned \/ laser_lock = "cmd")

\* peer_addr().unwrap() on the primary's stream and on the sender's: the
\* lookup is made for FORGET ME and for a decoded command while the slot is
\* set, and the operating system may refuse it on a connection that was reset.
AddrMayFail(slot, p, r) ==
    /\ slot # None
    /\ r.k = FORGET_ME \/ deserialize_command(r).ok
    /\ peer[slot] = "rst" \/ peer[p] = "rst"

\* A read that leaves what it has read in the stream.
AfterRead_keep(r) == r

\* What is left to read after client.read(&mut buf) has returned the record r.
AfterRead(r) == NoReq

\* client.read(&mut buf) on the peer at cmd_idx and the dispatch of what was
\* read.  Nothing to read (timeout, end of stream, error) moves on to the next
\* peer, and so does a record that is no verb and decodes to no command.
CmdRead ==
    /\ tpc["cmd"] = "iter"
    /\ cmd_idx <= Len(clients)
    /\ LET p == clients[cmd_idx]
           d == Dispatch(primary_client, p, req[p])
       IN  /\ req' = [req EXCEPT ![p] = AfterRead(req[p])]
           /\ \/ /\ primary_client' = d.slot
                 /\ cmd_reply' = d.reply
                 /\ cmd_buf' = d.cmd
                 /\ cmd_execs' = 0
                 /\ IF d.exec
                    THEN /\ tpc' = [tpc EXCEPT !["cmd"] = "exec"]
                         /\ cmd_rec' = req[p]
                         /\ cmd_slot0' = primary_client
                         /\ UNCHANGED cmd_idx
                    ELSE IF d.reply # None
                         THEN /\ tpc' = [tpc EXCEPT !["cmd"] = "reply"]
                              /\ cmd_rec' = req[p]
                              /\ cmd_slot0' = primary_client
                              /\ UNCHANGED cmd_idx
                         ELSE /\ cmd_idx' = cmd_idx + 1
                              /\ cmd_rec' = NoReq
                              /\ cmd_slot0' = None
                              /\ UNCHANGED tpc
                 /\ UNCHANGED << clients_lock, clients_poisoned, laser_lock,
                                 laser_poisoned >>
              \/ /\ AddrMayFail(primary_client, p, req[p])
                 /\ CmdPanic
                 /\ UNCHANGED << primary_client, cmd_reply, cmd_buf, cmd_execs,
                                 cmd_rec, cmd_slot0, cmd_idx >>
    /\ UNCHANGED << polling, threads, clients, laser, acc_stream, bc_idx, bc_snap,
                    peer, s2c >>
    /\ UNCHANGED << ownerVars, clientVars, ghostVars >>
    /\ UNCHANGED scenarioVars

\* Variant: the Result of send_command is ignored.
ExecReply_always(ok) == COMMAND_SUCCESSFUL

\* The reply for the Result of send_command.
ExecReply(ok) == IF ok THEN COMMAND_SUCCESSFUL ELSE COMMAND_FAILED

\* _laser.lock().unwrap() and laser.send_command(command): the guard stays
\* alive until the reply has been written.
CmdExec ==
    /\ tpc["cmd"] = "exec"
    /\ SessionLockable(laser_lock)
    /\ IF laser_poisoned
       THEN /\ CmdPanic
            /\ UNCHANGED << laser, cmd_reply, cmd_execs, owed, need >>
       ELSE LET res == send_command(laser, cmd_buf) IN
                /\ laser_lock' = "cmd"
                /\ laser' = res.laser
                /\ cmd_reply' = ExecReply(res.ok)
                /\ cmd_execs' = Min(cmd_execs + 1, MaxExec)
                /\ tpc' = [tpc EXCEPT !["cmd"] = "reply"]
                /\ owed' = IF res.ok THEN OwedAfterCommand ELSE owed
                /\ need' = IF res.ok THEN [q \in Peers |-> FALSE] ELSE need
                /\ UNCHANGED << clients_lock, clients_poisoned, laser_poisoned >>
    /\ UNCHANGED << polling, threads, clients, primary_client, acc_stream, bc_idx,
                    bc_snap, cmd_idx, cmd_rec, cmd_buf, cmd_slot0, peer, s2c, req >>
    /\ UNCHANGED << ownerVars, clientVars >>
    /\ UNCHANGED scenarioVars

\* client.write_all(reply).unwrap(), which blocks while the peer's buffers are
\* full and panics when the write fails; then the next peer of the list.
\* Variant: the session guard of the command task outlives the sweep.
SessionAfterReply_held(holder) == holder
\* End of the block of `let mut laser = _laser.lock().unwrap()`.
SessionAfterReply(holder) == IF holder = "cmd" THEN Free ELSE holder

CmdReply ==
    /\ tpc["cmd"] = "reply"
    /\ LET p == clients[cmd_idx] IN
        /\ WriteOutcome(p) # "block"
        /\ IF WriteOutcome(p) = "ok"
           THEN /\ s2c' = StreamAfterWrite(p, ReplyRec(cmd_reply))
                /\ peer' = PeerAfterWrite(p)
                /\ laser_lock' = SessionAfterReply(laser_lock)
                /\ IF CommandAfterVerb(cmd_rec) = NoReq
                   THEN /\ tpc' = [tpc EXCEPT !["cmd"] = "iter"]
                        /\ cmd_idx' = cmd_idx + 1
                        /\ cmd_reply' = None
                        /\ cmd_slot0' = None
                        /\ cmd_rec' = NoReq
                        /\ cmd_buf' = NoCmd
                   ELSE /\ tpc' = [tpc EXCEPT !["cmd"] =
                                     IF IsNotPrimary(primary_client, p)
                                     THEN "reply" ELSE "exec"]
                        /\ cmd_idx' = cmd_idx
                        /\ cmd_reply' = IF IsNotPrimary(primary_client, p)
                                        THEN NOT_PRIMARY_CLIENT ELSE None
                        /\ cmd_slot0' = primary_client
                        /\ cmd_rec' = CommandAfterVerb(cmd_rec)
                        /\ cmd_buf' = IF IsNotPrimary(primary_client, p) THEN NoCmd
                                      ELSE deserialize_command(cmd_rec).val
                /\ UNCHANGED << clients_lock, clients_poisoned, laser_poisoned >>
           ELSE /\ CmdPanic
                /\ cmd_reply' = None
                /\ cmd_slot0' = None
                /\ cmd_rec' = NoReq
                /\ cmd_buf' = NoCmd
                /\ UNCHANGED << s2c, peer, cmd_idx >>
    /\ cmd_execs' = 0
    /\ UNCHANGED << polling, threads, clients, laser, primary_client, acc_stream,
                    bc_idx, bc_snap, req >>
    /\ UNCHANGED << ownerVars, clientVars, ghostVars >>
    /\ UNCHANGED scenarioVars

\* drop(clients), then the sleep of 50 ms.
CmdEnd ==
    /\ tpc["cmd"] = "iter"
    /\ cmd_idx > Len(clients)
    /\ clients_lock' = ClientsAfterSweep("cmd")
    /\ tpc' = [tpc EXCEPT !["cmd"] = "top"]
    /\ cmd_idx' = 0
    /\ UNCHANGED << polling, threads, clients, clients_poisoned, laser, laser_lock,
                    laser_poisoned, primary_client, acc_stream, bc_idx, bc_snap,
                    cmd_rec, cmd_buf, cmd_execs, cmd_reply, cmd_slot0, peer, s2c, req >>
    /\ UNCHANGED << ownerVars, clientVars, ghostVars >>
    /\ UNCHANGED scenarioVars

\* ------------------------------------------------------------- the owner
\* poll() on a server that is not polling: the flag is set and the three threads
\* are spawned; the command thread starts from a clone of self._primary_client,
\* which nothing ever sets.
\* Variant: poll() never takes the early return.
AlreadyPolling_never == FALSE
\* self._polling_thread.is_some()
AlreadyPolling == threads["bcast"]

\* Variant: the command task starts from the binding of the task before.
SlotAtSpawn_kept == primary_client
\* self._primary_client.clone(): the server's field, which nothing ever sets.
SlotAtSpawn == None

Poll ==
    /\ opc = "idle"
    /\ ~AlreadyPolling
    /\ spawned_over' = {t \in Tasks : Alive(t)}
    /\ slot_dropped' = primary_client
    /\ polling' = TRUE
    /\ threads' = [t \in Tasks |-> TRUE]
    /\ tpc' = [t \in Tasks |-> IF t = "accept" THEN "run" ELSE "top"]
    /\ primary_client' = SlotAtSpawn
    /\ UNCHANGED << clients, clients_lock, clients_poisoned, laser, laser_lock,
                    laser_poisoned, acc_stream, bc_idx, bc_snap, cmd_idx, cmd_rec, cmd_buf, cmd_execs,
                    cmd_reply, cmd_slot0, peer, s2c, req >>
    /\ UNCHANGED << ownerVars, clientVars, ghostVars >>
    /\ UNCHANGED << codecVars, splitVars, serialVars, debugVars, repolls, intervalVars,
                    sweepVars, waitVars >>

\* poll() on a server that is already polling: returns Ok(()) at once.
PollAgain ==
    /\ opc = "idle"
    /\ AlreadyPolling
    /\ repolls < MaxRepolls
    /\ repolls' = repolls + 1
    /\ UNCHANGED << serverVars, ownerVars, clientVars, peer, s2c, req, ghostVars,
                    codecVars, splitVars, serialVars, debugVars, spawned_over,
                    slot_dropped, intervalVars,
                    sweepVars, waitVars >>

\* set_polling_interval(v): locks _polling_interval and stores v.
SetPollingInterval(v) ==
    /\ opc = "idle"
    /\ interval_lock = Free
    /\ polling_interval' = v
    /\ UNCHANGED << serverVars, ownerVars, clientVars, peer, s2c, req, ghostVars,
                    codecVars, splitVars, serialVars, debugVars, pollVars,
                    interval_lock, bc_sleep,
                    sweepVars, waitVars >>

\* stop_polling() on a polling server: the flag is cleared, then the joins.
StopPolling ==
    /\ opc = "idle"
    /\ threads["bcast"]
    /\ polling' = FALSE
    /\ opc' = "join_accept"
    /\ UNCHANGED << threads, tpc, clients, clients_lock, clients_poisoned, laser,
                    laser_lock, laser_poisoned, primary_client, acc_stream, bc_idx,
                    bc_snap, cmd_idx, cmd_rec, cmd_buf, cmd_execs, cmd_reply, cmd_slot0, peer, s2c, req >>
    /\ UNCHANGED << in_get_laser, laser_out, clones, clientVars, ghostVars >>
    /\ UNCHANGED scenarioVars

\* Variant: stop_polling() returns after the first join.
AfterJoin_first(t) ==
    CASE tpc[t] = "panicked" -> "panicked"
      [] OTHER -> IF in_get_laser THEN "unwrap" ELSE "idle"

\* Where the owner goes after the join of one thread.
AfterJoin(t) ==
    CASE tpc[t] = "panicked" -> "panicked"
      [] t = "accept" -> "join_bcast"
      [] t = "bcast" -> "join_cmd"
      [] t = "cmd" -> IF in_get_laser THEN "unwrap" ELSE "idle"

JoinTask(t) == IF t = "accept" THEN "join_accept"
               ELSE IF t = "bcast" THEN "join_bcast" ELSE "join_cmd"

\* handle.take() and thread.join().unwrap(): returns when the thread has ended,
\* and panics when the thread ended in a panic.
Join(t) ==
    /\ opc = JoinTask(t)
    /\ tpc[t] \in {"done", "panicked"}
    /\ threads' = [threads EXCEPT ![t] = FALSE]
    /\ tpc' = [tpc EXCEPT ![t] = "none"]
    /\ opc' = AfterJoin(t)
    /\ UNCHANGED << polling, clients, clients_lock, clients_poisoned, laser,
                    laser_lock, laser_poisoned, primary_client, acc_stream, bc_idx,
                    bc_snap, cmd_idx, cmd_rec, cmd_buf, cmd_execs, cmd_reply, cmd_slot0, peer, s2c, req >>
    /\ UNCHANGED << in_get_laser, laser_out, clones, clientVars, ghostVars >>
    /\ UNCHANGED scenarioVars

\* get_laser(): stop_polling() first.
GetLaser ==
    /\ opc = "idle"
    /\ in_get_laser' = TRUE
    /\ IF threads["bcast"]
       THEN /\ polling' = FALSE
            /\ opc' = "join_accept"
       ELSE /\ opc' = "unwrap"
            /\ UNCHANGED polling
    /\ UNCHANGED << threads, tpc, clients, clients_lock, clients_poisoned, laser,
                    laser_lock, laser_poisoned, primary_client, acc_stream, bc_idx,
                    bc_snap, cmd_idx, cmd_rec, cmd_buf, cmd_execs, cmd_reply, cmd_slot0, peer, s2c, req >>
    /\ UNCHANGED << laser_out, clones, clientVars, ghostVars >>
    /\ UNCHANGED scenarioVars

\* Strong references to the session: the server's own, one per clone of the
\* server, and one per thread that captured a clone of the Arc and has not ended.
StrongCount == 1 + clones + Cardinality({t \in {"bcast", "cmd"} : Alive(t)})

\* Clone for NetworkLaserServer: the clone shares the session (_laser.clone()),
\* has its own empty client list and no threads.
CloneServer ==
    /\ opc = "idle"
    /\ clones < MaxClones
    /\ clones' = clones + 1
    /\ UNCHANGED << serverVars, opc, in_get_laser, laser_out, peer, s2c, req,
                    clientVars, ghostVars >>
    /\ UNCHANGED scenarioVars

\* A clone is dropped: its stop_polling() finds no thread, its Arc is released.
DropClone ==
    /\ opc = "idle"
    /\ clones > 0
    /\ clones' = clones - 1
    /\ UNCHANGED << serverVars, opc, in_get_laser, laser_out, peer, s2c, req,
                    clientVars, ghostVars >>
    /\ UNCHANGED scenarioVars

\* Arc::try_unwrap(self._laser.take()...), into_inner().unwrap(), and the drop
\* of the consumed server.
GetLaserUnwrap ==
    /\ opc = "unwrap"
    /\ IF StrongCount = 1
       THEN IF laser_poisoned
            THEN /\ opc' = "panicked"
                 /\ UNCHANGED laser_out
            ELSE /\ opc' = "gone"
                 /\ laser_out' = [ok |-> TRUE, laser |-> laser]
       ELSE /\ opc' = "gone"
            /\ laser_out' = [ok |-> FALSE, laser |-> "MutexPoisoned"]
    /\ UNCHANGED << serverVars, in_get_laser, clones, peer, s2c, req, clientVars, ghostVars >>
    /\ UNCHANGED scenarioVars

\* NetworkLaserServer::command: the owner's direct send_command under the
\* session lock.
OwnerCommand(c) ==
    /\ opc = "idle"
    /\ SessionLockable(laser_lock)
    /\ IF laser_poisoned
       THEN /\ opc' = "panicked"
            /\ UNCHANGED << laser, owed, need >>
       ELSE /\ laser' = send_command(laser, c).laser
            /\ owed' = IF send_command(laser, c).ok THEN OwedAfterCommand ELSE owed
            /\ need' = IF send_command(laser, c).ok THEN [q \in Peers |-> FALSE] ELSE need
            /\ UNCHANGED opc
    /\ UNCHANGED << polling, threads, tpc, clients, clients_lock, clients_poisoned,
                    laser_lock, laser_poisoned, primary_client, acc_stream, bc_idx,
                    bc_snap, cmd_idx, cmd_rec, cmd_buf, cmd_execs, cmd_reply, cmd_slot0, peer, s2c, req >>
    /\ UNCHANGED << in_get_laser, laser_out, clones, clientVars >>
    /\ UNCHANGED scenarioVars

\* ------------------------------------------------------------- the clients
\* What one read() of the client returns, and what stays in the socket.
Chunk(p) == SubSeq(s2c[p], 1, Min(Len(s2c[p]), MaxRead))
Rest(p) == SubSeq(s2c[p], Min(Len(s2c[p]), MaxRead) + 1, Len(s2c[p]))

\* The peers are interchangeable: they connect in a fixed order.
PeerBefore(q, p) == q = "A" /\ p = "B"

\* The server object exists and its process runs.
ServerUp == opc \notin {"gone", "panicked"}

\* BasicNetworkLaserClient::<L>::connect with L of type ty: TcpStream::connect,
\* the connection waits in the listener's backlog.
ConnectAs(p, ty) ==
    /\ cpc[p] = "off"
    /\ ServerUp
    /\ \A q \in Peers : PeerBefore(q, p) => cpc[q] # "off"
    /\ peer' = [peer EXCEPT ![p] = "pending"]
    /\ cpc' = [cpc EXCEPT ![p] = "connecting"]
    /\ ctype' = [ctype EXCEPT ![p] = ty]
    /\ UNCHANGED << serverVars, ownerVars, s2c, req, cres, ghostVars >>
    /\ UNCHANGED scenarioVars

\* A client declared for the type of the server's session connects.
Connect(p) == ConnectAs(p, ServerLaserType)

\* A connect() that accepts a server of any type.
TypeMatches_any(decoded, declared) == TRUE

\* laser_type == L::into_laser_type()
TypeMatches(decoded, declared) == decoded = declared

\* connect(): one read; when a LASER_ID record decodes, the client is created
\* if the type is that of L, else UnrecognizedDevice is returned and the stream
\* is dropped (closed, with a reset when received data is unread).
Handshake(p) ==
    /\ cpc[p] = "connecting"
    /\ ServerUp
    /\ s2c[p] # << >>
    /\ IF ~deserialize_laser_type(Chunk(p)).ok
       THEN /\ s2c' = [s2c EXCEPT ![p] = Rest(p)]
            /\ UNCHANGED << cpc, cres, peer >>
       ELSE IF TypeMatches(deserialize_laser_type(Chunk(p)).val, ctype[p])
            THEN /\ s2c' = [s2c EXCEPT ![p] = Rest(p)]
                 /\ cpc' = [cpc EXCEPT ![p] = "idle"]
                 /\ UNCHANGED << cres, peer >>
            ELSE /\ s2c' = [s2c EXCEPT ![p] = << >>]
                 /\ cpc' = [cpc EXCEPT ![p] = "rejected"]
                 /\ cres' = [cres EXCEPT ![p] = "UnrecognizedDevice"]
                 /\ peer' = [peer EXCEPT ![p] = IF Rest(p) # << >> THEN "rst" ELSE "fin"]
    /\ UNCHANGED << serverVars, ownerVars, req, ctype, ghostVars >>
    /\ UNCHANGED scenarioVars

\* call_and_wait_for_response!: the request is written.
Call(p, r) ==
    /\ cpc[p] = "idle"
    /\ ServerUp
    /\ req' = [req EXCEPT ![p] = r]
    /\ cpc' = [cpc EXCEPT ![p] = "wait"]
    /\ cres' = [cres EXCEPT ![p] = None]
    /\ UNCHANGED << serverVars, ownerVars, ctype, peer, s2c, ghostVars >>
    /\ UNCHANGED scenarioVars

\* The Result a reply gives.
ReplyResult(k) ==
    CASE k = COMMAND_SUCCESSFUL -> "Ok"
      [] k = COMMAND_FAILED -> "CommandError"
      [] k = NOT_PRIMARY_CLIENT -> "NotPrimaryClient"
      [] OTHER -> None

\* call_and_wait_for_response!: one read into response[0..]; the call returns
\* when what was read starts with one of the three replies.
WaitRead(p) ==
    /\ cpc[p] = "wait"
    /\ ServerUp
    /\ s2c[p] # << >>
    /\ s2c' = [s2c EXCEPT ![p] = Rest(p)]
    /\ IF Chunk(p)[1].k \in Replies
       THEN /\ cpc' = [cpc EXCEPT ![p] = "idle"]
            /\ cres' = [cres EXCEPT ![p] = ReplyResult(Chunk(p)[1].k)]
       ELSE UNCHANGED << cpc, cres >>
    /\ UNCHANGED << serverVars, ownerVars, ctype, peer, req, ghostVars >>
    /\ UNCHANGED scenarioVars

\* query_status() is called.
QueryStatus(p) ==
    /\ cpc[p] = "idle"
    /\ ServerUp
    /\ cpc' = [cpc EXCEPT ![p] = "qstat"]
    /\ cres' = [cres EXCEPT ![p] = None]
    /\ need' = [need EXCEPT ![p] = (owed = 0)]
    /\ UNCHANGED << serverVars, ownerVars, ctype, peer, s2c, req, owed >>
    /\ UNCHANGED scenarioVars

\* query_status(): one read is appended to data; the call returns when the
\* record after the last STATUS_MARKER of data decodes.
QueryRead(p) ==
    /\ cpc[p] = "qstat"
    /\ ServerUp
    /\ s2c[p] # << >>
    /\ s2c' = [s2c EXCEPT ![p] = Rest(p)]
    /\ IF deserialize_laser_status(Chunk(p)).ok
       THEN /\ cpc' = [cpc EXCEPT ![p] = "idle"]
            /\ cres' = [cres EXCEPT ![p] = deserialize_laser_status(Chunk(p)).val]
            /\ need' = [need EXCEPT ![p] = FALSE]
       ELSE UNCHANGED << cpc, cres, need >>
    /\ UNCHANGED << serverVars, ownerVars, ctype, peer, req, owed >>
    /\ UNCHANGED scenarioVars

\* The client is dropped or its process ends: the socket is closed, with a
\* reset when received data is still unread.
Close(p) ==
    /\ cpc[p] \in {"idle", "wait", "qstat"}
    /\ ServerUp
    /\ peer' = [peer EXCEPT ![p] = IF s2c[p] # << >> THEN "rst" ELSE "fin"]
    /\ s2c' = [s2c EXCEPT ![p] = << >>]
    /\ req' = [req EXCEPT ![p] = IF s2c[p] # << >> THEN NoReq ELSE @]
    /\ cpc' = [cpc EXCEPT ![p] = "closed"]
    /\ cres' = [cres EXCEPT ![p] = None]
    /\ need' = [need EXCEPT ![p] = FALSE]
    /\ UNCHANGED << serverVars, ownerVars, ctype, owed >>
    /\ UNCHANGED scenarioVars

\* ------------------------------------------------------------- partial reads
\* What a read returns that starts in the middle of a record: bytes that begin
\* with no marker and no verb.
Fragment(bytes) == [k |-> "bytes", v |-> bytes]

\* command(): write_all of a command record that the network delivers in two
\* parts, the marker with the first payload byte, then the rest.
CallSplit(p, c) ==
    /\ cpc[p] = "idle"
    /\ ServerUp
    /\ req[p] = NoReq
    /\ Len(serialize_command(c)) >= 2
    /\ req' = [req EXCEPT ![p] =
                  [k |-> COMMAND_MARKER, v |-> SubSeq(serialize_command(c), 1, 1)]]
    /\ req_tail' = [req_tail EXCEPT ![p] = Tail(serialize_command(c))]
    /\ cpc' = [cpc EXCEPT ![p] = "wait"]
    /\ cres' = [cres EXCEPT ![p] = None]
    /\ UNCHANGED << serverVars, ownerVars, ctype, peer, s2c, ghostVars, codecVars,
                    serialVars, debugVars, pollVars, intervalVars,
                    sweepVars, waitVars >>

\* A peer writes a verb and a command record back to back, and the server
\* gets both in one read.
SendPipelined(p, verb, c) ==
    /\ cpc[p] = "idle"
    /\ ServerUp
    /\ req[p] = NoReq
    /\ req' = [req EXCEPT ![p] =
                  [k |-> verb, v |-> << MarkerToken >> \o serialize_command(c)]]
    /\ cpc' = [cpc EXCEPT ![p] = "wait"]
    /\ cres' = [cres EXCEPT ![p] = None]
    /\ UNCHANGED << serverVars, ownerVars, ctype, peer, s2c, ghostVars, codecVars,
                    splitVars, serialVars, debugVars, pollVars, intervalVars,
                    sweepVars, waitVars >>

\* The rest of the record arrives: behind the first part when that is still
\* unread, else as what the next read of the server returns.
Deliver(p) ==
    /\ req_tail[p] # << >>
    /\ cpc[p] = "wait"
    /\ req' = [req EXCEPT ![p] =
                  IF req[p] = NoReq THEN Fragment(req_tail[p])
                  ELSE [req[p] EXCEPT !.v = @ \o req_tail[p]]]
    /\ req_tail' = [req_tail EXCEPT ![p] = << >>]
    /\ UNCHANGED << serverVars, ownerVars, clientVars, peer, s2c, ghostVars, codecVars,
                    serialVars, debugVars, pollVars, intervalVars,
                    sweepVars, waitVars >>

\* ------------------------------------------------------------- framing
\* The statuses and commands that are framed: the values of the modelled
\* fields, among them an integer field whose byte is the terminator's.
CurveNumbers == {0, 1, TERMINATOR}
CodecStatuses ==
    [variable_shutter : BOOLEAN, wavelength : {WavelengthMin, DefaultWavelength},
     gdd_curve : CurveNumbers]
CodecCommands ==
    { [name |-> "Shutter", arg |-> TRUE], [name |-> "Shutter", arg |-> FALSE],
      [name |-> "Wavelength", arg |-> WavelengthMin],
      [name |-> "Wavelength", arg |-> DefaultWavelength] }
    \cup { [name |-> "GddCurve", arg |-> n] : n \in CurveNumbers }
CodecValues ==
    { [kind |-> "status", val |-> x] : x \in CodecStatuses }
    \cup { [kind |-> "command", val |-> c] : c \in CodecCommands }

\* STATUS_MARKER || encode(x) || TERMINATOR, COMMAND_MARKER || encode(c) ||
\* TERMINATOR: the framed record of a value.
Frame(v) ==
    IF v.kind = "status" THEN StatusRec(serialized_status(v.val))
    ELSE CommandRec(v.val)

\* A value is framed into an empty buffer.
InitCodec ==
    /\ InitServer
    /\ InitNoSerial
    /\ codec_in \in CodecValues
    /\ codec_buf = << Frame(codec_in) >>
    /\ codec_out = << >>

\* One more status record is written behind those the buffer holds.
CodecWriteStatus(x) ==
    /\ codec_in.kind = "status"
    /\ codec_out = << >>
    /\ Len(codec_buf) < MaxFrames
    /\ codec_in' = [kind |-> "status", val |-> x]
    /\ codec_buf' = Append(codec_buf, Frame([kind |-> "status", val |-> x]))
    /\ UNCHANGED << codec_out, serverVars, ownerVars, peer, s2c, req, clientVars,
                    ghostVars, splitVars, serialVars, debugVars, pollVars, intervalVars,
                    sweepVars, waitVars >>

\* deserialize_laser_status::<L>(&buffer)
CodecReadStatus ==
    /\ codec_in.kind = "status"
    /\ codec_out = << >>
    /\ codec_out' = << deserialize_laser_status(codec_buf) >>
    /\ UNCHANGED << codec_in, codec_buf, serverVars, ownerVars, peer, s2c, req,
                    clientVars, ghostVars, splitVars, serialVars, debugVars, pollVars, intervalVars,
                    sweepVars, waitVars >>

\* deserialize_command::<L>(&buffer)
CodecReadCommand ==
    /\ codec_in.kind = "command"
    /\ codec_out = << >>
    /\ codec_out' = << deserialize_command(codec_buf[1]) >>
    /\ UNCHANGED << codec_in, codec_buf, serverVars, ownerVars, peer, s2c, req,
                    clientVars, ghostVars, splitVars, serialVars, debugVars, pollVars, intervalVars,
                    sweepVars, waitVars >>

\* ------------------------------------------------------------- serial session
\* The words of a response line: the command string as sent (its echo), a
\* space, a word the instrument adds, the literals the parser looks for, and
\* the line end.
EchoWord == "WV=0"
SpaceWord == " "
ArgWord == "INVALID"
NotExecutedWord == "COMMAND NOT EXECUTED"
PromptWord == "Chameleon>"
CrLf == "\r\n"
LineWords == {EchoWord, SpaceWord, ArgWord, NotExecutedWord, PromptWord}
Whitespace == {SpaceWord, CrLf}

\* The lines read_line can return: words, then CR LF.
ResponseLines ==
    { body \o << CrLf >> : body \in UNION { [1..n -> LineWords] : n \in 0..MaxLine } }

\* str::contains of one word.
Contains(s, w) == \E i \in 1..Len(s) : s[i] = w

\* Index of the first occurrence of pat in s (0: none).
FirstMatch(s, pat) ==
    LET hits == { i \in 1..(Len(s) - Len(pat) + 1) :
                    SubSeq(s, i, i + Len(pat) - 1) = pat }
    IN  IF hits = {} THEN 0 ELSE CHOOSE i \in hits : \A j \in hits : i <= j

\* str::split(pat).collect(): the pieces between the occurrences of pat.
RECURSIVE Split(_, _)
Split(s, pat) ==
    IF FirstMatch(s, pat) = 0 THEN << s >>
    ELSE << SubSeq(s, 1, FirstMatch(s, pat) - 1) >>
            \o Split(SubSeq(s, FirstMatch(s, pat) + Len(pat), Len(s)), pat)

\* str::trim(): without the whitespace at both ends.
RECURSIVE TrimStart(_)
TrimStart(s) ==
    IF s # << >> /\ Head(s) \in Whitespace THEN TrimStart(Tail(s)) ELSE s
RECURSIVE TrimEnd(_)
TrimEnd(s) ==
    IF s # << >> /\ s[Len(s)] \in Whitespace THEN TrimEnd(SubSeq(s, 1, Len(s) - 1))
    ELSE s
Trim(s) == TrimEnd(TrimStart(s))

\* The Results of Discovery::send_command.
SerialOk == [kind |-> "Ok", detail |-> << >>]
SerialErr(kind, detail) == [kind |-> kind, detail |-> detail]

\* Discovery::send_command after the command was written: the parsing of the
\* line read.  With the prompt on, the piece after "Chameleon>" is indexed
\* without a check (a panic when the line holds no prompt).
DiscoverySendCommand(session, line) ==
    IF Contains(line, NotExecutedWord) THEN SerialErr("CommandNotExecutedError", << >>)
    ELSE IF session.prompt /\ Len(Split(line, << PromptWord >>)) < 2
    THEN SerialErr("panic", << >>)
    ELSE LET buf == IF session.prompt THEN Split(line, << PromptWord >>)[2] ELSE line
             split_on_command == Split(buf, << EchoWord, SpaceWord >>)
         IN  IF session.echo
             THEN IF Len(split_on_command) # 2
                  THEN SerialErr("InvalidResponseError", buf)
                  ELSE IF Trim(split_on_command[2]) # << >>
                  THEN SerialErr("InvalidArgumentsError", split_on_command[2])
                  ELSE SerialOk
             ELSE IF Trim(buf) # << >>
                  THEN SerialErr("InvalidResponseError", buf)
                  ELSE SerialOk

\* A session as open() left it, and the line the instrument will answer with.
InitSerial ==
    /\ InitServer
    /\ codec_in = NoValue
    /\ codec_buf = << >>
    /\ codec_out = << >>
    /\ serial_session \in [echo : BOOLEAN, prompt : BOOLEAN]
    /\ serial_line \in ResponseLines
    /\ serial_out = << >>
    /\ debug_laser = DefaultLaser
    /\ debug_out = << >>
    /\ spawned_over = {}
    /\ slot_dropped = None
    /\ polling_interval = DefaultInterval
    /\ interval_lock = Free
    /\ bc_sleep = 0
    /\ bc_partial = << >>
    /\ bc_frames = [p \in Peers |-> << >>]
    /\ wait_pc = "idle"
    /\ response_ptr = 0
    /\ repolls = 0

\* send_command(Wavelength{0}) on the session.
SerialSendCommand ==
    /\ serial_line # << >>
    /\ serial_out = << >>
    /\ serial_out' = << DiscoverySendCommand(serial_session, serial_line) >>
    /\ UNCHANGED << serial_session, serial_line, serverVars, ownerVars, peer, s2c, req,
                    clientVars, ghostVars, codecVars, splitVars, debugVars, pollVars, intervalVars,
                    sweepVars, waitVars >>

\* ------------------------------------------------------------- debug session
\* DebugLaser::default(), with the fields the other commands reach as well.
DefaultDebugLaser ==
    DefaultLaser @@ [gdd |-> 0, echo |-> TRUE, fixed_shutter |-> FALSE,
                     alignment_var |-> FALSE, alignment_fixed |-> FALSE,
                     gdd_curve_n |-> "Default", status |-> "OK",
                     fault_text |-> "No faults"]

\* Commands given to a debug session: values at, and one beyond, both ends of
\* the two ranges, and commands of the other arms of the match.
DebugCommands ==
    { [name |-> "Wavelength", arg |-> w] :
        w \in {WavelengthMin - 1, WavelengthMin, WavelengthMax, WavelengthMax + 1} }
    \cup { [name |-> "Gdd", arg |-> g] : g \in {GddMin - 1, GddMin, GddMax, GddMax + 1} }
    \cup { [name |-> "Shutter", arg |-> TRUE], [name |-> "GddCurve", arg |-> 1],
           [name |-> "Echo", arg |-> FALSE], [name |-> "Heartbeat", arg |-> 0] }
    \cup { [name |-> "Shutter", laser |-> "FixedWavelength", arg |-> TRUE],
           [name |-> "AlignmentMode", laser |-> "VariableWavelength", arg |-> TRUE],
           [name |-> "AlignmentMode", laser |-> "FixedWavelength", arg |-> TRUE],
           [name |-> "GddCurveN", arg |-> "Curve1"],
           [name |-> "Laser", arg |-> "Standby"], [name |-> "Laser", arg |-> "On"],
           [name |-> "FaultClear", arg |-> 0], [name |-> "SetCurveN", arg |-> "Curve2"] }

InitDebug ==
    /\ InitServer
    /\ codec_in = NoValue
    /\ codec_buf = << >>
    /\ codec_out = << >>
    /\ serial_session = [echo |-> FALSE, prompt |-> FALSE]
    /\ serial_line = << >>
    /\ serial_out = << >>
    /\ debug_laser = DefaultDebugLaser
    /\ debug_out = << >>
    /\ spawned_over = {}
    /\ slot_dropped = None
    /\ polling_interval = DefaultInterval
    /\ interval_lock = Free
    /\ bc_sleep = 0
    /\ bc_partial = << >>
    /\ bc_frames = [p \in Peers |-> << >>]
    /\ wait_pc = "idle"
    /\ response_ptr = 0
    /\ repolls = 0

\* laser.send_command(c) on a DebugLaser the caller owns.
DebugSendCommand(c) ==
    /\ debug_laser' = send_command(debug_laser, c).laser
    /\ debug_out' = << [cmd |-> c, ok |-> send_command(debug_laser, c).ok] >>
    /\ UNCHANGED << serverVars, ownerVars, peer, s2c, req, clientVars, ghostVars,
                    codecVars, splitVars, serialVars, pollVars, intervalVars,
                    sweepVars, waitVars >>

\* ------------------------------------------------------------- the system
\* The steps of the three spawned threads.
AcceptStep == (\E p \in Peers : AcceptConn(p)) \/ AcceptPush
BcStep == BcTop \/ BcSnapshot \/ BcWrite \/ BcEnd \/ BcWake
CmdStep == CmdTop \/ CmdRead \/ CmdExec \/ CmdReply \/ CmdEnd

\* The calls of the clients in P that wait for a reply, and their lifetime.
CallStep(P) ==
    \/ \E p \in P : Connect(p)
    \/ \E p \in P : Handshake(p)
    \/ \E p \in P : \E r \in RequestsOf(p) : Call(p, r)
    \/ \E p \in P : WaitRead(p)
    \/ \E p \in P : Close(p)

\* connect() of clients in P declared for any laser type.
ConnectAnyStep(P) == \E p \in P : \E ty \in LaserTypes : ConnectAs(p, ty)

\* query_status() of the clients in P.
QueryStep(P) ==
    \/ \E p \in P : QueryStatus(p)
    \/ \E p \in P : QueryRead(p)

\* The calls of the thread that owns the server.
OwnerStep ==
    \/ Poll
    \/ StopPolling
    \/ \E t \in Tasks : Join(t)
    \/ GetLaser
    \/ GetLaserUnwrap
    \/ \E c \in OwnerCommands : OwnerCommand(c)

\* The clones the owner makes of the server and drops again.
CloneStep == CloneServer \/ DropClone

\* The whole system: every thread, the owner and both peers.
Next ==
    \/ AcceptStep
    \/ AcceptExit
    \/ BcStep
    \/ CmdStep
    \/ OwnerStep
    \/ CloneStep
    \/ ConnectAnyStep(Peers)
    \/ CallStep(Peers)
    \/ QueryStep(Queriers)

Spec == Init /\ [][Next]_vars

\* The life of one server with a single peer: poll(), the peer's calls and
\* queries, the owner's commands, stop_polling(), poll() again, get_laser().
NextLifecycle ==
    \/ AcceptStep
    \/ AcceptExit
    \/ BcStep
    \/ CmdStep
    \/ OwnerStep
    \/ CallStep({"A"})
    \/ QueryStep({"A"})

SpecLifecycle == Init /\ [][NextLifecycle]_vars

\* A server that is started and keeps polling, and two peers that compete
\* for the primary-client slot.
NextPrimary ==
    \/ AcceptStep
    \/ BcStep
    \/ CmdStep
    \/ Poll
    \/ CallStep(Peers)

SpecPrimary == Init /\ [][NextPrimary]_vars

\* Connection scenario: one client, declared for any laser type, connects to
\* the polling server and makes calls when it was accepted.
NextConnect ==
    \/ AcceptStep
    \/ BcStep
    \/ CmdStep
    \/ Poll
    \/ ConnectAnyStep({"A"})
    \/ CallStep({"A"})

SpecConnect == Init /\ [][NextConnect]_vars

\* command() whose record reaches the server in two parts.
SplitStep(P) ==
    \/ \E p \in P : \E c \in ClientCommands : CallSplit(p, c)
    \/ \E p \in P : Deliver(p)

\* Partial reads: one client of the polling server, whose command records
\* may arrive in two parts.
NextSplit ==
    \/ AcceptStep
    \/ BcStep
    \/ CmdStep
    \/ Poll
    \/ CallStep({"A"})
    \/ SplitStep({"A"})

SpecSplit == Init /\ [][NextSplit]_vars

\* The owner starts, starts again and stops the server while a client calls.
NextRepoll ==
    \/ AcceptStep
    \/ AcceptExit
    \/ BcStep
    \/ CmdStep
    \/ Poll
    \/ PollAgain
    \/ StopPolling
    \/ \E t \in Tasks : Join(t)
    \/ CallStep({"A"})

SpecRepoll == Init /\ [][NextRepoll]_vars

\* The owner changes the polling interval of a polling server that has a client.
NextInterval ==
    \/ AcceptStep
    \/ BcStep
    \/ CmdStep
    \/ Poll
    \/ \E v \in Intervals : SetPollingInterval(v)
    \/ CallStep({"A"})

SpecInterval == Init /\ [][NextInterval]_vars

\* All the owner's calls that take a lock or wait, on a server with a client.
NextLocks ==
    \/ AcceptStep
    \/ AcceptExit
    \/ BcStep
    \/ CmdStep
    \/ Poll
    \/ StopPolling
    \/ \E t \in Tasks : Join(t)
    \/ \E c \in OwnerCommands : OwnerCommand(c)
    \/ \E v \in Intervals : SetPollingInterval(v)
    \/ CallStep({"A"})

SpecLocks == Init /\ [][NextLocks]_vars

\* The broadcaster reads the status query by query while the owner and a
\* client send commands.
NextSweep ==
    \/ AcceptStep
    \/ BcTop \/ BcSweepBegin \/ BcSweepQuery \/ BcSweepEnd \/ BcWrite \/ BcEnd \/ BcWake
    \/ CmdStep
    \/ Poll
    \/ \E c \in OwnerCommands : OwnerCommand(c)
    \/ CallStep({"A"})

SpecSweep == Init /\ [][NextSweep]_vars

\* One peer of the polling server that also sends a verb and a command record
\* in one segment.
NextPipelined ==
    \/ AcceptStep
    \/ BcStep
    \/ CmdStep
    \/ Poll
    \/ CallStep({"A"})
    \/ \E v \in Verbs : \E c \in ClientCommands : SendPipelined("A", v, c)

SpecPipelined == Init /\ [][NextPipelined]_vars

\* ------------------------------------------------------------- the wait loop
\* call_and_wait_for_response!, byte by byte: let mut response = [0u8; 1024].
BufSize == 1024
\* The length of the shortest of the three replies, COMMAND FAILED\n.
ReplyMinLen == 15
\* What one read(&mut response) can return: nothing (end of stream), one byte,
\* a reply line alone, a status frame, the whole buffer.
ReadSizes == {0, 1, ReplyMinLen, 64, BufSize}

\* response[0..response_ptr]: the slice is taken when the range is in bounds,
\* else the thread panics.
SliceInBounds(ptr) == ptr <= BufSize

\* write_all(command), then let mut response_ptr = 0.
WaitBegin ==
    /\ wait_pc = "idle"
    /\ wait_pc' = "wait"
    /\ response_ptr' = 0
    /\ UNCHANGED << serverVars, ownerVars, clientVars, peer, s2c, req, ghostVars,
                    codecVars, splitVars, serialVars, debugVars, pollVars,
                    intervalVars, sweepVars >>

\* read(&mut response) returns Ok(n), the bytes written at the start of the
\* buffer: response_ptr += n, then the slice response[0..response_ptr] is
\* tested for the three replies (reply: it starts with one of them).
WaitReadOk(n, reply) ==
    /\ wait_pc = "wait"
    /\ reply => n >= ReplyMinLen
    /\ response_ptr' = response_ptr + n
    /\ wait_pc' = IF ~SliceInBounds(response_ptr + n) THEN "panicked"
                  ELSE IF reply THEN "returned" ELSE "wait"
    /\ UNCHANGED << serverVars, ownerVars, clientVars, peer, s2c, req, ghostVars,
                    codecVars, splitVars, serialVars, debugVars, pollVars,
                    intervalVars, sweepVars >>

\* read(&mut response) returns Err(e): the call returns Err(IoError(e)).
WaitReadErr ==
    /\ wait_pc = "wait"
    /\ wait_pc' = "returned"
    /\ UNCHANGED response_ptr
    /\ UNCHANGED << serverVars, ownerVars, clientVars, peer, s2c, req, ghostVars,
                    codecVars, splitVars, serialVars, debugVars, pollVars,
                    intervalVars, sweepVars >>

\* The caller has the result; the response buffer and its pointer are gone.
WaitReturned ==
    /\ wait_pc = "returned"
    /\ wait_pc' = "idle"
    /\ response_ptr' = 0
    /\ UNCHANGED << serverVars, ownerVars, clientVars, peer, s2c, req, ghostVars,
                    codecVars, splitVars, serialVars, debugVars, pollVars,
                    intervalVars, sweepVars >>

\* One client's calls, under any sequence of reads.
NextWait ==
    \/ WaitBegin
    \/ \E n \in ReadSizes : \E reply \in BOOLEAN : WaitReadOk(n, reply)
    \/ WaitReadErr
    \/ WaitReturned

SpecWait == Init /\ [][NextWait]_vars

\* Both peers of a polling server whose session can fail to give its status,
\* while the owner changes the settings; the peers connect, listen, and close.
NextFailing ==
    \/ AcceptStep
    \/ BcStep
    \/ BcSnapshotFails
    \/ CmdTop
    \/ CmdRead
    \/ CmdEnd
    \/ Poll
    \/ \E c \in Commands : OwnerCommand(c)
    \/ \E p \in Peers : Connect(p)
    \/ \E p \in Peers : Handshake(p)
    \/ \E p \in Peers : Close(p)

SpecFailing == Init /\ [][NextFailing]_vars

\* A debug session: any sequence of commands.
NextDebug == \E c \in DebugCommands : DebugSendCommand(c)

SpecDebug == InitDebug /\ [][NextDebug]_vars

\* The serial session: one send_command on a drawn response line.
NextSerial == SerialSendCommand

SpecSerial == InitSerial /\ [][NextSerial]_vars

\* Framing: values are framed into a buffer, and the buffer is decoded.
NextCodec ==
    \/ \E x \in CodecStatuses : CodecWriteStatus(x)
    \/ CodecReadStatus
    \/ CodecReadCommand

SpecCodec == InitCodec /\ [][NextCodec]_vars

\* The life of one server of which the owner makes clones: poll(), a peer's
\* calls, stop_polling(), get_laser().
NextClone ==
    \/ AcceptStep
    \/ AcceptExit
    \/ BcStep
    \/ CmdStep
    \/ OwnerStep
    \/ CloneStep
    \/ CallStep({"A"})

SpecClone == Init /\ [][NextClone]_vars

\* ------------------------------------------------------------- properties
\* The peer whose record the command thread holds in buf.
CmdPeer == clients[cmd_idx]
\* The command thread holds a record it has dispatched and not yet answered.
Handling == tpc["cmd"] \in {"exec", "reply"}
\* The owner waits in one of the three joins of stop_polling().
Joining == {"join_accept", "join_bcast", "join_cmd"}
\* A step the server can take by itself: a step of one of its threads, or the
\* return of the join the owner waits in.
ServerProgress ==
    AcceptStep \/ AcceptExit \/ BcStep \/ CmdStep \/ (\E t \in Tasks : Join(t))

C2_DemandPrimary ==
    /\ primary_client \in Peers \cup {None}
    /\ (tpc["cmd"] = "reply" /\ cmd_rec.k = DEMAND_PRIMARY_CLIENT)
        => IF cmd_slot0 = None
           THEN primary_client = CmdPeer /\ cmd_reply = COMMAND_SUCCESSFUL
           ELSE primary_client = cmd_slot0 /\ cmd_reply = NOT_PRIMARY_CLIENT

\* C2 witness: the primary itself demands the slot again and is refused.
C2_Witness ==
    /\ tpc["cmd"] = "reply"
    /\ cmd_rec.k = DEMAND_PRIMARY_CLIENT
    /\ cmd_slot0 = CmdPeer
    /\ primary_client = CmdPeer
    /\ cmd_reply = NOT_PRIMARY_CLIENT

C4_ForgetPrimary ==
    /\ (tpc["cmd"] = "reply" /\ cmd_rec.k = FORGET_PRIMARY_CLIENT)
        => primary_client = None /\ cmd_reply = COMMAND_SUCCESSFUL
    /\ (Handling /\ cmd_rec.k = COMMAND_MARKER /\ cmd_slot0 = None)
        => /\ primary_client = None
           /\ cmd_reply # NOT_PRIMARY_CLIENT
           /\ tpc["cmd"] = "reply" => cmd_execs = 1

\* C4 witness: a peer has forced the release of the slot the other peer held.
C4_Witness ==
    /\ tpc["cmd"] = "reply"
    /\ cmd_rec.k = FORGET_PRIMARY_CLIENT
    /\ cmd_slot0 # None /\ cmd_slot0 # CmdPeer
    /\ primary_client = None
    /\ cmd_reply = COMMAND_SUCCESSFUL

\* C5: a decoded command record read while no primary is set, or from the
\* primary, is executed exactly once on the session; the reply is COMMAND
\* SUCCESSFUL exactly when send_command returned Ok and COMMAND FAILED
\* otherwise, and the peer stays in the client list.
C5_CommandExecuted ==
    [][ (Handling /\ cmd_rec.k = COMMAND_MARKER
            /\ (cmd_slot0 = None \/ cmd_slot0 = CmdPeer))
        => /\ cmd_rec = CommandRec(cmd_buf)
           /\ tpc["cmd"] = "exec" => cmd_execs = 0
           /\ tpc["cmd"] = "reply"
                => /\ cmd_execs = 1
                   /\ cmd_reply \in {COMMAND_SUCCESSFUL, COMMAND_FAILED}
                   /\ laser' = laser
           /\ (tpc["cmd"] = "exec" /\ tpc'["cmd"] = "reply")
                => /\ laser' = send_command(laser, cmd_buf).laser
                   /\ cmd_reply' = IF send_command(laser, cmd_buf).ok
                                   THEN COMMAND_SUCCESSFUL ELSE COMMAND_FAILED
           /\ (tpc["cmd"] = "reply" /\ tpc'["cmd"] = "iter" /\ peer[CmdPeer] = "conn")
                => s2c'[CmdPeer] = Append(s2c[CmdPeer], ReplyRec(cmd_reply))
           /\ clients' = clients
      ]_vars

\* C5 witness: a command of the primary has been executed once, has failed on
\* the session, and is about to be answered COMMAND FAILED.
C5_Witness ==
    /\ tpc["cmd"] = "reply"
    /\ cmd_rec.k = COMMAND_MARKER
    /\ cmd_slot0 = CmdPeer
    /\ cmd_execs = 1
    /\ cmd_reply = COMMAND_FAILED
    /\ CmdPeer \in {clients[i] : i \in 1..Len(clients)}

C7_CallReturnsReply ==
    [][ \A p \in Peers :
            (cpc[p] = "wait" /\ cpc'[p] # "closed" /\ Len(s2c'[p]) < Len(s2c[p]))
                => \A i \in 1..Len(Chunk(p)) :
                       Chunk(p)[i].k \in Replies
                           => /\ cpc'[p] = "idle"
                              /\ cres'[p] = ReplyResult(Chunk(p)[i].k) ]_vars

\* C8: polling() is false before the first poll(), true from poll() until
\* stop_polling() is called, and false from then on; when stop_polling() has
\* returned, the three threads have ended and their handles have been joined.
C8_PollingFlag ==
    /\ opc = "idle" => (polling <=> threads["bcast"])
    /\ opc \in Joining \cup {"unwrap", "gone"} => ~polling
    /\ (opc \in {"idle", "unwrap", "gone"} /\ ~polling)
        => \A t \in Tasks : ~threads[t] /\ ~Alive(t)

\* C8 witness: stop_polling() has returned on a server that had accepted a peer.
C8_Witness ==
    /\ opc = "idle"
    /\ ~polling
    /\ clients # << >>
    /\ \A t \in Tasks : ~threads[t]

\* C9: while the owner waits in stop_polling(), the server can always take a
\* step towards its return by itself, whatever the peers do or omit: no state
\* has the owner in a join with every thread stuck.
C9_StopPollingReturns ==
    opc \in Joining => ENABLED ServerProgress

\* C10: a get_laser() call on the only holder of the session ends by returning
\* the session: it does not panic, it cannot get stuck in the joins with every
\* thread stuck, and what it returns is Ok with the session.
C10_GetLaserReturnsSession ==
    in_get_laser
        => /\ opc # "panicked"
           /\ opc \in Joining => ENABLED ServerProgress
           /\ opc = "gone" => laser_out = [ok |-> TRUE, laser |-> laser]

\* C11: get_laser() on a server whose session is also held by a clone of the
\* server does not return the session and fails with MultipleReferencesToLaser.
C11_MultipleReferences ==
    (opc = "gone" /\ clones > 0)
        => /\ ~laser_out.ok
           /\ laser_out.laser = "MultipleReferencesToLaser"

\* C12: connect() yields a client only when the laser type decoded from the
\* LASER_ID record is the client's type parameter; otherwise it returns
\* UnrecognizedDevice and no client exists.
C12_ConnectChecksType ==
    \A p \in Peers :
        /\ cpc[p] \in {"idle", "wait", "qstat", "closed"} => ctype[p] = ServerLaserType
        /\ (cpc[p] # "off" /\ cpc[p] # "connecting" /\ ctype[p] # ServerLaserType)
               => (cpc[p] = "rejected" /\ cres[p] = "UnrecognizedDevice")

C12_Witness ==
    /\ cpc["A"] = "rejected"
    /\ ctype["A"] = "DiscoveryNX"
    /\ cres["A"] = "UnrecognizedDevice"

\* C13: the first record written on a peer's stream is its one LASER_ID
\* record: a peer is in the client list only after that record was written,
\* and no status frame or reply precedes it or repeats it.
C13_LaserIdFirst ==
    \A p \in Peers :
        /\ \A i \in 1..Len(s2c[p]) :
               s2c[p][i].k = LASER_ID <=> (i = 1 /\ cpc[p] = "connecting")
        /\ (cpc[p] = "connecting" /\ (acc_stream = p \/ \E i \in 1..Len(clients) : clients[i] = p))
               => (s2c[p] # << >> /\ s2c[p][1] = IdRec)
        /\ acc_stream = p => \A i \in 1..Len(clients) : clients[i] # p

C13_Witness ==
    /\ cpc["A"] = "connecting"
    /\ \E i \in 1..Len(clients) : clients[i] = "A"
    /\ Len(s2c["A"]) >= 2
    /\ s2c["A"][1] = IdRec
    /\ s2c["A"][2].k = STATUS_MARKER

\* C14: a connected peer that stops reading never blocks the broadcaster: with
\* two connected peers in the list, the broadcaster in its sweep can always
\* take its next step (write the frame, or drop the peer whose write failed)
\* without any client reading.
C14_StalledPeerDropped ==
    (/\ tpc["bcast"] = "write"
     /\ Len(clients) = 2
     /\ \A p \in Peers : peer[p] = "conn")
        => ENABLED BcStep

\* C16: only a poisoned lock terminates a server task: a task that stops by a
\* panic does so only when one of the two mutexes was already poisoned; a
\* failed write to a peer or a failed session call leaves it running.
C16_OnlyPoisonTerminates ==
    [][ \A t \in Tasks :
            (tpc[t] # "panicked" /\ tpc'[t] = "panicked")
                => (clients_poisoned \/ laser_poisoned) ]_vars

\* C15: in a broadcast sweep the client list changes only by the removal of
\* the peer whose status write failed, the other peers keeping their places
\* and order; a peer whose write succeeded stays and is written the frame.
C15_RetainRemovesFailed ==
    [][ tpc["bcast"] = "write" =>
          /\ clients' # clients =>
                /\ bc_idx \in 1..Len(clients)
                /\ peer[clients[bc_idx]] = "rst"
                /\ Len(clients') = Len(clients) - 1
                /\ \A i \in 1..Len(clients') :
                       clients'[i] = clients[IF i < bc_idx THEN i ELSE i + 1]
                /\ bc_idx' = bc_idx
                /\ s2c' = s2c
          /\ bc_idx' = bc_idx + 1 =>
                /\ clients' = clients
                /\ peer[clients[bc_idx]] # "rst"
                /\ peer[clients[bc_idx]] = "conn"
                       => s2c'[clients[bc_idx]] = Append(s2c[clients[bc_idx]], bc_snap[1])
          /\ (tpc'["bcast"] = "sleep" /\ bc_idx' = 0) => bc_idx > Len(clients)
      ]_vars

\* C15 witness: in one sweep the first peer has been written the frame and
\* kept, and the second, whose write failed, is gone from the list.
C15_Witness ==
    /\ tpc["bcast"] = "write"
    /\ clients = << "A" >>
    /\ bc_idx = 2
    /\ peer["A"] = "conn"
    /\ peer["B"] = "rst"
    /\ s2c["A"] # << >>
    /\ s2c["A"][Len(s2c["A"])] = bc_snap[1]

\* C17: the status frames on a peer's stream are an in-order subsequence of
\* the broadcaster's snapshots, none reordered or duplicated: a stream changes
\* only by a read of its front or by one record appended at its end; a status
\* frame appended is the snapshot of the sweep in progress, written to the
\* peer at the sweep position, which the sweep then leaves and which is listed
\* only once; and the snapshot does not change during a sweep.
C17_StatusFramesInOrder ==
    [][ /\ \A p \in Peers :
            \/ s2c'[p] = s2c[p]
            \/ \E n \in 1..Len(s2c[p]) : s2c'[p] = SubSeq(s2c[p], n + 1, Len(s2c[p]))
            \/ /\ Len(s2c'[p]) = Len(s2c[p]) + 1
               /\ SubSeq(s2c'[p], 1, Len(s2c[p])) = s2c[p]
               /\ s2c'[p][Len(s2c'[p])].k = STATUS_MARKER =>
                     /\ tpc["bcast"] = "write"
                     /\ bc_idx \in 1..Len(clients)
                     /\ clients[bc_idx] = p
                     /\ s2c'[p][Len(s2c'[p])] = bc_snap[1]
                     /\ bc_idx' = bc_idx + 1
                     /\ clients' = clients
                     /\ \A i \in 1..Len(clients) : clients[i] = p => i = bc_idx
        /\ (tpc["bcast"] = "write" /\ tpc'["bcast"] = "write") => bc_snap' = bc_snap
      ]_vars

\* C17 witness: a peer's stream holds two different snapshots, the later one,
\* the session's present status, behind the earlier one.
C17_Witness ==
    \E i \in 1..Len(s2c["A"]) :
        /\ i < Len(s2c["A"])
        /\ s2c["A"][i].k = STATUS_MARKER
        /\ s2c["A"][Len(s2c["A"])] = StatusRec(serialized_status(laser))
        /\ s2c["A"][i] # s2c["A"][Len(s2c["A"])]

\* The replies waiting in a peer's stream, and what a client has in flight: its
\* request not yet read, the request the command thread holds, its reply.
ReplyCount(p) == Cardinality({i \in 1..Len(s2c[p]) : s2c[p][i].k \in Replies})
InFlight(p) ==
    (IF req[p] # NoReq THEN 1 ELSE 0)
    + (IF Handling /\ cmd_idx \in 1..Len(clients) /\ clients[cmd_idx] = p THEN 1 ELSE 0)
    + ReplyCount(p)

\* C18: a client's requests are handled one at a time in the order it issued
\* them and each reply it receives answers its latest request: a client has at
\* most one request or reply in flight and only while its call waits (or after
\* it has gone); it issues a request only with nothing in flight; the record
\* the command thread handles for a peer is the request that peer wrote, and
\* the command executed on the session is that record's command; a reply is
\* written only to the peer whose request is being handled; and a call
\* returns the result of the one reply in its stream.
C18_PerClientOrder ==
    [][ \A p \in Peers :
          /\ InFlight(p) <= 1
          /\ InFlight(p) = 1 => cpc[p] \in {"wait", "closed"}
          /\ (req[p] = NoReq /\ req'[p] # NoReq)
                => (cpc[p] = "idle" /\ cpc'[p] = "wait" /\ InFlight(p) = 0)
          /\ (req[p] # NoReq /\ req'[p] = NoReq /\ cpc'[p] = cpc[p])
                => /\ tpc["cmd"] = "iter"
                   /\ cmd_idx \in 1..Len(clients)
                   /\ clients[cmd_idx] = p
                   /\ Handling' => (cmd_rec' = req[p] /\ cmd_idx' = cmd_idx)
          /\ (tpc["cmd"] = "exec" /\ tpc'["cmd"] = "reply" /\ CmdPeer = p)
                => /\ cmd_rec = CommandRec(cmd_buf)
                   /\ laser' = send_command(laser, cmd_buf).laser
          /\ ReplyCount(p)' > ReplyCount(p)
                => /\ tpc["cmd"] = "reply"
                   /\ CmdPeer = p
                   /\ s2c'[p] = Append(s2c[p], ReplyRec(cmd_reply))
          /\ (cpc[p] = "wait" /\ cpc'[p] = "idle")
                => /\ ReplyCount(p) = 1
                   /\ ReplyCount(p)' = 0
                   /\ \E i \in 1..Len(s2c[p]) :
                         /\ s2c[p][i].k \in Replies
                         /\ cres'[p] = ReplyResult(s2c[p][i].k)
      ]_vars

\* C18 witness: a client's command has been executed (the shutter is open),
\* its call has returned, and it has issued its next request.
C18_Witness ==
    /\ laser.variable_shutter
    /\ cpc["A"] = "wait"
    /\ req["A"] = CommandRec([name |-> "Wavelength", arg |-> 1001])

\* C19: framing round trip: decoding the framed record of a status x returns
\* x, and decoding the framed record of a command c returns c, also when the
\* encoding holds the terminator byte.
C19_FramingRoundTrip ==
    (codec_out # << >> /\ Len(codec_buf) = 1)
        => /\ codec_out[1].ok
           /\ codec_out[1].val = IF codec_in.kind = "status"
                                 THEN status(codec_in.val) ELSE codec_in.val

\* C20: from a buffer that holds several complete status records,
\* deserialize_laser_status returns the last one written.
C20_LastStatusReturned ==
    (codec_in.kind = "status" /\ codec_out # << >> /\ Len(codec_buf) >= 2)
        => /\ codec_out[1].ok
           /\ codec_out[1].val = status(codec_in.val)

\* C21: a command record that reaches the command task in two reads is
\* reassembled: the read that returns the last part of the record leaves the
\* command thread handling the whole command of that peer (to execute it and
\* answer it).
C21_PartialReadsReassembled ==
    [][ \A p \in Peers :
            (/\ req[p] = Fragment(req[p].v)
             /\ req_tail[p] = << >>
             /\ req'[p] = NoReq
             /\ cpc'[p] = cpc[p])
                => /\ Handling'
                   /\ clients[cmd_idx'] = p
                   /\ deserialize_command(cmd_rec').ok ]_vars

\* C22: with echo on and prompt off, send_command returns Ok for a line that is
\* the echo followed by an empty residual, and only for a line whose residual
\* after the echo is empty; for a line that is the echo followed by a
\* non-empty tail it returns InvalidArguments with that tail, trimmed.
C22_EchoParsing ==
    (serial_out # << >> /\ serial_session.echo /\ ~serial_session.prompt)
        => LET echo == << EchoWord, SpaceWord >>
               tail == SubSeq(serial_line, 3, Len(serial_line))
               echoed == Len(serial_line) >= 2 /\ SubSeq(serial_line, 1, 2) = echo
           IN  /\ (echoed /\ Trim(tail) = << >>) => serial_out[1] = SerialOk
               /\ serial_out[1] = SerialOk =>
                     /\ FirstMatch(serial_line, echo) # 0
                     /\ Trim(Split(serial_line, echo)[2]) = << >>
               /\ (/\ echoed
                   /\ Trim(tail) # << >>
                   /\ FirstMatch(tail, echo) = 0
                   /\ ~Contains(serial_line, NotExecutedWord))
                     => serial_out[1] = SerialErr("InvalidArgumentsError", Trim(tail))

C24_PollIdempotent ==
    [][ /\ repolls' # repolls => serverVars' = serverVars /\ opc' = "idle"
        /\ spawned_over' = {} ]_vars

\* C24 happens: poll() was called on a server whose three tasks run and that
\* has a client.
C24_Witness ==
    /\ repolls > 0
    /\ \A t \in Tasks : Alive(t)
    /\ clients # << >>

\* C25: at most one thread holds the session at any instant: the broadcast
\* task's status sweep, the command task's send_command and the owner's direct
\* calls each begin only when no guard of the session is alive.
C25_SessionExclusive ==
    [][ (\/ tpc["bcast"] = "snap" /\ tpc'["bcast"] = "write"
         \/ tpc["cmd"] = "exec" /\ tpc'["cmd"] = "reply"
         \/ laser' # laser)
            => laser_lock = Free ]_vars

\* C25 happens: the command task holds the session, with the shutter open,
\* while the owner is free to call command() to close it.
C25_Witness ==
    /\ laser_lock = "cmd"
    /\ laser.variable_shutter
    /\ opc = "idle"

\* C26: whenever the primary-client slot is set, the peer it names is in the
\* server's client list: once the primary peer has disconnected and has been
\* dropped from the list, the slot is no longer bound to it.
C26_PrimaryIsLivePeer ==
    primary_client # None => \E i \in 1..Len(clients) : clients[i] = primary_client

\* C27: in every state where the owner is not inside a call of the server, the
\* accept, broadcast and command tasks are alive if and only if the polling
\* flag is true.
C27_TasksIffPolling ==
    opc = "idle" => \A t \in Tasks : Alive(t) <=> polling

\* C28: the broadcast task never holds the session lock while it writes to a
\* peer: the guard is dropped between serialized_status and the first write,
\* so that the owner's command() can go ahead while the broadcaster is in a
\* peer write.
C28_BroadcastWritesUnlocked ==
    tpc["bcast"] = "write"
        => /\ laser_lock # "bcast"
           /\ (opc = "idle" /\ laser_lock # "cmd")
                 => \A c \in OwnerCommands : ENABLED OwnerCommand(c)

\* C28 happens: the broadcaster is in a write to a peer whose stream is full,
\* and the owner is free to call command().
C28_Witness ==
    /\ tpc["bcast"] = "write"
    /\ bc_idx <= Len(clients)
    /\ Len(s2c[clients[bc_idx]]) >= StreamCap
    /\ opc = "idle"

\* C29: no task holds the session lock while it sleeps or does I/O on a peer
\* stream: not the broadcaster in its writes or its sleep, and not the command
\* task when it reads a peer, writes a reply or sleeps.
C29_NoSessionLockAcrossIO ==
    /\ tpc["bcast"] \in {"write", "sleep", "top"} => laser_lock # "bcast"
    /\ tpc["cmd"] \in {"iter", "reply", "top"} => laser_lock # "cmd"

\* C30: neither the command task nor the broadcast task holds the client-list
\* lock while it sleeps between two sweeps, and while both are outside a sweep
\* the accept task can push a peer it has accepted.
C30_NoClientLockAcrossSleep ==
    /\ tpc["bcast"] \in {"sleep", "top"} => clients_lock # "bcast"
    /\ tpc["cmd"] = "top" => clients_lock # "cmd"
    /\ (/\ tpc["accept"] = "push"
        /\ tpc["bcast"] \notin {"snap", "write"}
        /\ tpc["cmd"] \notin {"iter", "exec", "reply"})
          => ENABLED AcceptPush

\* C30 happens: both tasks sleep after sweeps over one peer, which made itself
\* primary, while the accept task has a second peer to push.
C30_Witness ==
    /\ tpc["bcast"] = "sleep"
    /\ tpc["cmd"] = "top"
    /\ tpc["accept"] = "push"
    /\ Len(clients) = 1
    /\ primary_client = clients[1]

\* C31: only the command task changes the primary-client slot: a step that
\* changes the binding is a step of the command task handling what it read
\* from a peer; the accept task, the broadcast task, the owner's calls and a
\* stop_polling() followed by poll() leave the binding as it was.
C31_OnlyCommandTaskRebinds ==
    [][ primary_client' # primary_client
            => tpc["cmd"] = "iter" /\ tpc'["cmd"] \in {"reply", "panicked"} ]_vars

\* C38: a poll() after a stop_polling() keeps the client list as it was, so
\* the peers connected before the stop are swept again, starts the three tasks
\* again, and starts the command task with an empty primary-client slot: a
\* binding made before the stop is not carried over.
C38_RepollKeepsPeers ==
    [][ (~polling /\ polling')
            => /\ clients' = clients
               /\ primary_client' = None
               /\ \A t \in Tasks : threads'[t] /\ Alive(t)' ]_vars

\* C38 happens: peer A was primary when the server was stopped; after poll()
\* the slot is empty, A is still connected and first in the list, and the
\* broadcaster has written it a frame in its sweep.
C38_Witness ==
    /\ slot_dropped # None
    /\ polling
    /\ primary_client = None
    /\ clients # << >>
    /\ clients[1] = slot_dropped
    /\ peer[slot_dropped] = "conn"
    /\ tpc["bcast"] = "write"
    /\ bc_idx > 1

\* C36: the broadcast task does not hold the guard of the polling interval
\* while it sleeps, so a set_polling_interval() of the owner can go ahead
\* during a sleep without waiting for its end.
C36_IntervalGuardNotHeldAsleep ==
    tpc["bcast"] = "sleep" =>
        /\ interval_lock # "bcast"
        /\ opc = "idle" => \A v \in Intervals : ENABLED SetPollingInterval(v)

\* The three mutexes and who holds their guards.
Locks == {"clients", "session", "interval"}
Holder(l) ==
    IF l = "clients" THEN clients_lock
    ELSE IF l = "session" THEN laser_lock ELSE interval_lock

\* The mutex task t is about to lock where it stands (None: none).
WaitsOn(t) ==
    CASE t = "accept" /\ tpc[t] = "push" -> "clients"
      [] t \in {"bcast", "cmd"} /\ tpc[t] = "top" /\ polling -> "clients"
      [] t = "bcast" /\ tpc[t] = "snap" -> "session"
      [] t = "bcast" /\ tpc[t] = "write" /\ bc_idx > Len(clients) -> "interval"
      [] t = "cmd" /\ tpc[t] = "exec" -> "session"
      [] OTHER -> None

\* Task t waits for a mutex whose guard task u holds.
BlockedBy(t, u) == WaitsOn(t) \in Locks /\ Holder(WaitsOn(t)) = u

\* C32: no lock deadlock: no task waits for a mutex held by itself, no two and
\* no three tasks wait for each other in a cycle, and a task that locks the
\* client list holds no guard of the session (client list before session).
\* The owner's command, query, status, set_polling_interval and stop_polling
\* hold no guard while they wait, so the owner is in no cycle.
C32_NoLockCycle ==
    /\ \A t \in Tasks : ~BlockedBy(t, t)
    /\ \A t, u \in Tasks : ~(BlockedBy(t, u) /\ BlockedBy(u, t))
    /\ \A t, u, w \in Tasks : ~(BlockedBy(t, u) /\ BlockedBy(u, w) /\ BlockedBy(w, t))
    /\ \A t \in Tasks : WaitsOn(t) = "clients" => laser_lock # t

\* C32 happens: the command task, at its reply write, holds the client list
\* and the session while the broadcast task waits for the client list and the
\* owner is free to call.
C32_Witness ==
    /\ tpc["cmd"] = "reply"
    /\ laser_lock = "cmd"
    /\ BlockedBy("bcast", "cmd")
    /\ opc = "idle"

\* C33: what the server writes to a peer after the LASER_ID record is a
\* sequence of whole records: the broadcast task and the command task are
\* never both inside a sweep, and a record is appended to the stream of a peer
\* of the list only by the task that holds the client-list lock, as one
\* status frame or one reply.
C33_WholeRecords ==
    [][ /\ ~(tpc'["bcast"] \in {"snap", "write"} /\ tpc'["cmd"] \in {"iter", "exec", "reply"})
        /\ \A p \in Peers :
              (s2c'[p] # s2c[p] /\ Len(s2c'[p]) >= Len(s2c[p])
                 /\ \E i \in 1..Len(clients) : clients[i] = p)
                => \/ /\ clients_lock = "bcast"
                      /\ tpc["bcast"] = "write"
                      /\ s2c'[p] = Append(s2c[p], bc_snap[1])
                   \/ /\ clients_lock = "cmd"
                      /\ tpc["cmd"] = "reply"
                      /\ s2c'[p] = Append(s2c[p], ReplyRec(cmd_reply)) ]_vars

\* C33 happens: the command task is about to write a reply to a peer whose
\* stream ends with a status frame, while the broadcast task waits for the
\* client list to begin its next sweep.
C33_Witness ==
    /\ tpc["cmd"] = "reply"
    /\ BlockedBy("bcast", "cmd")
    /\ Len(s2c[clients[cmd_idx]]) > 0
    /\ s2c[clients[cmd_idx]][Len(s2c[clients[cmd_idx]])].k = STATUS_MARKER

\* C34: a status sweep is atomic with respect to commands: from the first
\* query of a status() to its last no send_command changes the session, so
\* what has been read so far, and the snapshot made of it, is the state of
\* the session at one instant.
C34_SweepAtomic ==
    [][ tpc["bcast"] = "query"
            => /\ laser' = laser
               /\ bc_partial = SubSeq(serialized_status(laser), 1, Len(bc_partial))
               /\ tpc'["bcast"] = "write"
                     => bc_snap' = << StatusRec(serialized_status(laser)) >> ]_vars

\* C34 happens: the broadcaster is in the middle of its queries, the shutter
\* is open after a client's command, and the owner is free to call command()
\* to close it.
C34_Witness ==
    /\ tpc["bcast"] = "query"
    /\ Len(bc_partial) = 1
    /\ laser.variable_shutter
    /\ opc = "idle"

\* C35: for a read of the command task that begins with a control verb or
\* holds a decodable command record exactly one reply is written to the peer:
\* the read is dispatched, and after the write of the reply the task goes on
\* to the next peer; a read that holds neither is followed by no write and
\* changes neither the session nor the primary-client slot.
C35_OneReplyPerRead ==
    [][ /\ ( /\ tpc["cmd"] = "iter" /\ cmd_idx <= Len(clients)
              /\ tpc'["cmd"] # "panicked"
              /\ (tpc'["cmd"] # "iter" \/ cmd_idx' # cmd_idx) )
            => IF req[CmdPeer].k \in Verbs \/ deserialize_command(req[CmdPeer]).ok
               THEN tpc'["cmd"] \in {"reply", "exec"} /\ cmd_idx' = cmd_idx
               ELSE /\ tpc'["cmd"] = "iter"
                    /\ s2c' = s2c
                    /\ laser' = laser
                    /\ primary_client' = primary_client
        /\ (tpc["cmd"] = "exec" /\ tpc'["cmd"] \notin {"exec", "panicked"})
            => tpc'["cmd"] = "reply" /\ s2c' = s2c
        /\ (tpc["cmd"] = "reply" /\ tpc'["cmd"] \notin {"reply", "panicked"})
            => /\ peer[CmdPeer] = "conn"
                    => s2c'[CmdPeer] = Append(s2c[CmdPeer], ReplyRec(cmd_reply))
               /\ tpc'["cmd"] = "iter"
               /\ cmd_idx' = cmd_idx + 1 ]_vars

\* C37: on a debug session, after a send_command that returned Ok and sets a
\* setting (Echo, Laser, Shutter, AlignmentMode, Wavelength, Gdd, GddCurve,
\* GddCurveN), status() reports the commanded value in the field of that
\* setting and every other field of the status is as before; Heartbeat and
\* SetCurveN change no field of the status.
C37_StatusReflectsCommand ==
    [][ (debug_out' # << >> /\ debug_out'[1].ok) =>
          LET c == debug_out'[1].cmd
              before == status(debug_laser)
              after == status(debug_laser')
              field == CASE c.name = "Echo" -> "echo"
                         [] c.name = "Laser" -> "laser"
                         [] c.name = "Shutter" ->
                              IF OnFixed(c) THEN "fixed_shutter" ELSE "variable_shutter"
                         [] c.name = "AlignmentMode" ->
                              IF OnFixed(c) THEN "alignment_fixed" ELSE "alignment_var"
                         [] c.name = "Wavelength" -> "wavelength"
                         [] c.name = "Gdd" -> "gdd"
                         [] c.name = "GddCurve" -> "gdd_curve"
                         [] c.name = "GddCurveN" -> "gdd_curve_n"
                         [] OTHER -> None
          IN  /\ field # None =>
                    /\ after[field] = c.arg
                    /\ \A f \in DOMAIN before \ {field} : after[f] = before[f]
              /\ c.name \in {"Heartbeat", "SetCurveN"} => after = before ]_vars

\* C39: in one iteration of the broadcast task every peer is written at most
\* one status frame and all the frames written carry the bytes of the same
\* snapshot; when serialized_status fails no frame is written in that
\* iteration and the client list is as it was.
C39_OneFramePerPeer ==
    [][ /\ \A p \in Peers :
            /\ Len(bc_frames'[p]) <= 1
            /\ \A q \in Peers :
                  (bc_frames'[p] # << >> /\ bc_frames'[q] # << >>)
                      => bc_frames'[p][1] = bc_frames'[q][1]
        /\ (tpc["bcast"] = "snap" /\ tpc'["bcast"] = "top")
            => /\ \A p \in Peers : bc_frames[p] = << >> /\ bc_frames'[p] = << >>
               /\ s2c' = s2c
               /\ clients' = clients ]_vars

\* C39 happens: both peers have been written one frame in this iteration, the
\* session's status having changed after the snapshot was taken.
C39_Witness ==
    /\ tpc["bcast"] = "write"
    /\ bc_frames["A"] # << >>
    /\ bc_frames["B"] # << >>
    /\ bc_snap[1] # StatusRec(serialized_status(laser))

\* C40: in the client's wait-for-reply loop response_ptr never exceeds the
\* size of the response buffer (1024 bytes), so the slice
\* response[0..response_ptr] is always in bounds, whatever reads precede the
\* reply.
C40_PointerInBuffer ==
    response_ptr <= BufSize /\ wait_pc # "panicked"

====
